---- MODULE Spec2Model ----
(***************************************************************************)
(* The investment-research pipeline: four stages (coordinator,             *)
(* financial_agent, sentiment_agent, synthesizer) wired as a graph over a  *)
(* shared InvestmentState.  Each stage reads the state of the current      *)
(* step, returns an update (a dict of keys), and the graph runtime merges  *)
(* the updates of all stages of a step at the end of the step: keys        *)
(* annotated with `add` (messages, errors) are concatenated, every other   *)
(* key takes the single value written in the step, and two writes to such  *)
(* a key in one step are an invalid update that ends the run.              *)
(***************************************************************************)
EXTENDS Integers, Sequences, FiniteSets, TLC

\* ------------------------------------------------------------------ bounds

\* Largest number of articles a successful news fetch returns in the model;
\* above the five articles the sentiment stage keeps as a sample.
MaxArticles == 6

\* Length of the completion text that does not parse; above the 500 and the
\* 1000 characters the fallback records keep of it.
\* Words in a generated query
MaxWords == 2

RawTextLen == 1001

\* A completion text of that length.
RawText == [i \in 1..RawTextLen |-> IF i % 2 = 1 THEN "a" ELSE "b"]

\* ----------------------------------------------------------------- strings
\* Text the code inspects character by character (ticker, user_query) is a
\* sequence of one-character strings.

LowerChars ==
    <<"a", "b", "c", "d", "e", "f", "g", "h", "i", "j", "k", "l", "m",
      "n", "o", "p", "q", "r", "s", "t", "u", "v", "w", "x", "y", "z">>

UpperChars ==
    <<"A", "B", "C", "D", "E", "F", "G", "H", "I", "J", "K", "L", "M",
      "N", "O", "P", "Q", "R", "S", "T", "U", "V", "W", "X", "Y", "Z">>

Whitespace == {" ", "\t", "\n"}

UpperChar(c) ==
    IF \E i \in 1..Len(LowerChars) : LowerChars[i] = c
    THEN UpperChars[CHOOSE i \in 1..Len(LowerChars) : LowerChars[i] = c]
    ELSE c

LowerChar(c) ==
    IF \E i \in 1..Len(UpperChars) : UpperChars[i] = c
    THEN LowerChars[CHOOSE i \in 1..Len(UpperChars) : UpperChars[i] = c]
    ELSE c

\* str.upper()
upper(s) == [i \in 1..Len(s) |-> UpperChar(s[i])]

\* str.lower()
lower(s) == [i \in 1..Len(s) |-> LowerChar(s[i])]

\* A strip that leaves the text as it is
strip_nothing(s) == s

\* str.strip(): drops leading and trailing whitespace
strip(s) ==
    LET keep == {i \in 1..Len(s) : s[i] \notin Whitespace}
    IN  IF keep = {} THEN <<>>
        ELSE LET lo == CHOOSE i \in keep : \A j \in keep : i <= j
                 hi == CHOOSE i \in keep : \A j \in keep : j <= i
             IN  SubSeq(s, lo, hi)

\* `word in text` on strings: substring test
Contains(text, word) ==
    \E i \in 0..(Len(text) - Len(word)) : SubSeq(text, i + 1, i + Len(word)) = word

\* any(word in text for word in words)
AnyIn(text, words) == \E k \in 1..Len(words) : Contains(text, words[k])

\* ------------------------------------------------- coordinator: keyword sets

RiskKeywords ==
    << <<"r", "i", "s", "k">>,
       <<"r", "i", "s", "k", "y">>,
       <<"s", "a", "f", "e">>,
       <<"v", "o", "l", "a", "t", "i", "l", "e">>,
       <<"v", "o", "l", "a", "t", "i", "l", "i", "t", "y">> >>

FundamentalsKeywords ==
    << <<"v", "a", "l", "u", "e">>,
       <<"f", "u", "n", "d", "a", "m", "e", "n", "t", "a", "l">>,
       <<"e", "a", "r", "n", "i", "n", "g", "s">>,
       <<"r", "e", "v", "e", "n", "u", "e">>,
       <<"p", "r", "o", "f", "i", "t">> >>

TechnicalKeywords ==
    << <<"p", "r", "i", "c", "e">>,
       <<"t", "r", "e", "n", "d">>,
       <<"m", "o", "m", "e", "n", "t", "u", "m">>,
       <<"t", "e", "c", "h", "n", "i", "c", "a", "l">>,
       <<"c", "h", "a", "r", "t">> >>

NewsKeywords ==
    << <<"n", "e", "w", "s">>,
       <<"s", "e", "n", "t", "i", "m", "e", "n", "t">>,
       <<"r", "e", "c", "e", "n", "t">>,
       <<"l", "a", "t", "e", "s", "t">>,
       <<"h", "a", "p", "p", "e", "n", "i", "n", "g">> >>

BuyKeywords ==
    << <<"b", "u", "y">>,
       <<"i", "n", "v", "e", "s", "t">>,
       <<"p", "u", "r", "c", "h", "a", "s", "e">>,
       <<"s", "h", "o", "u", "l", "d", " ", "i", " ", "g", "e", "t">> >>

SellKeywords ==
    << <<"s", "e", "l", "l">>,
       <<"e", "x", "i", "t">>,
       <<"d", "u", "m", "p">>,
       <<"g", "e", "t", " ", "o", "u", "t">> >>

HoldKeywords ==
    << <<"h", "o", "l", "d">>,
       <<"k", "e", "e", "p">>,
       <<"m", "a", "i", "n", "t", "a", "i", "n">>,
       <<"s", "t", "a", "y", " ", "i", "n">> >>

urgent_keywords ==
    << <<"t", "o", "d", "a", "y">>,
       <<"n", "o", "w">>,
       <<"u", "r", "g", "e", "n", "t">>,
       <<"i", "m", "m", "e", "d", "i", "a", "t", "e">>,
       <<"a", "s", "a", "p">>,
       <<"q", "u", "i", "c", "k">>,
       <<"r", "i", "g", "h", "t", " ", "n", "o", "w">> >>

\* A focus-area scan that stops at the first matching set
_determine_focus_areas_first_match(user_query) ==
    LET query_lower == lower(user_query)
    IN  IF AnyIn(query_lower, RiskKeywords) THEN <<"risk_assessment">>
        ELSE IF AnyIn(query_lower, FundamentalsKeywords) THEN <<"fundamentals">>
        ELSE IF AnyIn(query_lower, TechnicalKeywords) THEN <<"technical">>
        ELSE IF AnyIn(query_lower, NewsKeywords) THEN <<"news_sentiment">>
        ELSE <<"comprehensive">>

\* _determine_focus_areas: the matching areas in the fixed order risk,
\* fundamentals, technical, news; ["comprehensive"] when none matches.
_determine_focus_areas(user_query) ==
    LET query_lower == lower(user_query)
        a1 == IF AnyIn(query_lower, RiskKeywords) THEN <<"risk_assessment">> ELSE <<>>
        a2 == IF AnyIn(query_lower, FundamentalsKeywords) THEN <<"fundamentals">> ELSE <<>>
        a3 == IF AnyIn(query_lower, TechnicalKeywords) THEN <<"technical">> ELSE <<>>
        a4 == IF AnyIn(query_lower, NewsKeywords) THEN <<"news_sentiment">> ELSE <<>>
        focus_areas == a1 \o a2 \o a3 \o a4
    IN  IF focus_areas = <<>> THEN <<"comprehensive">> ELSE focus_areas

\* An intent scan that looks for sell keywords before buy keywords
_classify_user_intent_sell_first(user_query) ==
    LET query_lower == lower(user_query)
    IN  IF AnyIn(query_lower, SellKeywords) THEN "sell_decision"
        ELSE IF AnyIn(query_lower, BuyKeywords) THEN "buy_decision"
        ELSE IF AnyIn(query_lower, HoldKeywords) THEN "hold_decision"
        ELSE "research"

\* _classify_user_intent: first match wins, buy, sell, hold, else research.
_classify_user_intent(user_query) ==
    LET query_lower == lower(user_query)
    IN  IF AnyIn(query_lower, BuyKeywords) THEN "buy_decision"
        ELSE IF AnyIn(query_lower, SellKeywords) THEN "sell_decision"
        ELSE IF AnyIn(query_lower, HoldKeywords) THEN "hold_decision"
        ELSE "research"

\* An urgency test on the query as typed, without lower-casing
_assess_time_sensitivity_as_typed(user_query) ==
    IF AnyIn(user_query, urgent_keywords) THEN "urgent" ELSE "normal"

\* _assess_time_sensitivity
_assess_time_sensitivity(user_query) ==
    IF AnyIn(lower(user_query), urgent_keywords) THEN "urgent" ELSE "normal"


\* ------------------------------------------------------------ Python values
\* A dict is a record with kind = "dict" next to its keys; None and a JSON
\* value that is not an object are records of another kind.

NoneV == [kind |-> "None"]

EmptyDict == [kind |-> "dict"]

\* Python truthiness of an optional dict / list value
Truthy(v) ==
    \/ v.kind = "dict" /\ DOMAIN v # {"kind"}
    \/ v.kind = "list" /\ v.items # <<>>

IsDict(v) == v.kind = "dict"

\* d.get(k, default)
Get(d, k, default) == IF k \in DOMAIN d THEN d[k] ELSE default

\* An assignment that keeps a value that is already there (dict.setdefault)
SetItem_setdefault(d, k, v) ==
    [f \in DOMAIN d \cup {k} |-> IF f \in DOMAIN d THEN d[f] ELSE v]

\* d[k] = v
SetItem(d, k, v) == [f \in DOMAIN d \cup {k} |-> IF f = k THEN v ELSE d[f]]

\* A str that loses its text
Str_empty(chars) == [kind |-> "str", chars |-> <<>>]

\* A str value that may also be None where it is stored
Str(chars) == [kind |-> "str", chars |-> chars]

\* A slice that keeps the whole sequence
Take_all(seq, n) == seq

\* seq[:n]
Take(seq, n) == SubSeq(seq, 1, IF Len(seq) < n THEN Len(seq) ELSE n)

\* ------------------------------------------------------------- shared state

\* The keys of InvestmentState.
Fields ==
    {"ticker", "user_query", "analysis_plan", "financial_analysis",
     "sentiment_analysis", "recommendation", "confidence", "reasoning",
     "messages", "errors"}

\* The keys annotated with the `add` reducer.
AddFields == {"messages", "errors"}

\* --------------------------------------------------------------- run inputs

TickerInputs ==
    { <<>>, <<" ">>, <<"n", "v">>, <<" ", "N", " ">> }

DefaultQueryPrefix ==
    <<"S", "h", "o", "u", "l", "d", " ", "I", " ", "i", "n", "v", "e", "s", "t",
      " ", "i", "n", " ">>

\* <<>> stands for "no query given".
QueryInputs ==
    { <<>>,
      <<"B", "u", "y", " ", "n", "o", "w">>,
      <<"i", "s", " ", "i", "t", " ", "r", "i", "s", "k", "y">>,
      <<"s", "e", "l", "l", " ", "o", "r", " ", "h", "o", "l", "d">> }

\* Words a query is put together from: one word per keyword set, in mixed
\* case, a word that holds a keyword inside another word, and a neutral one.
Vocabulary ==
    { <<"b", "u", "y">>,
      <<"S", "E", "L", "L">>,
      <<"k", "e", "e", "p">>,
      <<"R", "i", "s", "k", "y">>,
      <<"v", "a", "l", "u", "e">>,
      <<"p", "r", "i", "c", "e">>,
      <<"n", "e", "w", "s">>,
      <<"N", "O", "W">>,
      <<"k", "n", "o", "w">>,
      <<"T", "S", "L", "A">> }

RECURSIVE JoinWords(_)
\* The words of a query separated by single blanks
JoinWords(ws) ==
    IF ws = <<>> THEN <<>>
    ELSE IF Len(ws) = 1 THEN ws[1]
    ELSE ws[1] \o <<" ">> \o JoinWords(Tail(ws))

\* The example query of the documentation
RiskyRightNow ==
    <<"i", "s", " ", "T", "S", "L", "A", " ", "r", "i", "s", "k", "y", " ",
      "r", "i", "g", "h", "t", " ", "n", "o", "w">>

\* A query that names all four areas in the reverse of the scan order
AllAreasReversed ==
    <<"l", "a", "t", "e", "s", "t", " ", "p", "r", "i", "c", "e", ",", " ",
      "v", "a", "l", "u", "e", " ", "a", "n", "d", " ", "r", "i", "s", "k">>

\* A query with a sell, a hold and a buy keyword, the buy keyword last
SellKeepBuy ==
    JoinWords(<< <<"S", "E", "L", "L">>, <<"k", "e", "e", "p">>, <<"b", "u", "y">> >>)

\* The queries the coordinator is run on by itself.
PlannerQueries ==
    QueryInputs
    \cup { RiskyRightNow, AllAreasReversed, SellKeepBuy }
    \cup { JoinWords(ws) : ws \in UNION { [1..n -> Vocabulary] : n \in 1..MaxWords } }

\* run_analysis: the initial state built from the command-line inputs.
initial_state(t, q) ==
    [ ticker             |-> upper(t),
      user_query         |-> IF q = <<>> THEN DefaultQueryPrefix \o t \o <<"?">> ELSE q,
      analysis_plan      |-> NoneV,
      financial_analysis |-> NoneV,
      sentiment_analysis |-> NoneV,
      recommendation     |-> NoneV,
      confidence         |-> "None",
      reasoning          |-> NoneV,
      messages           |-> <<>>,
      errors             |-> <<>> ]

\* --------------------------------------------------------------- normalizer
\* clean_json_response, the same function in every stage module, followed by
\* json.loads.  The text is a sequence of characters.

\* The grave accent, the character code fences are made of; the name stands
\* for the one character.
Backtick == "GRAVE ACCENT"

\* The fence marker: three grave accents
Backticks == <<Backtick, Backtick, Backtick>>

\* s.startswith(prefix)
startswith(s, prefix) ==
    Len(s) >= Len(prefix) /\ SubSeq(s, 1, Len(prefix)) = prefix

RECURSIVE split(_, _)
\* s.split(sep) for a one-character separator
split(s, sep) ==
    IF \A i \in 1..Len(s) : s[i] # sep
    THEN <<s>>
    ELSE LET i == CHOOSE i \in 1..Len(s) :
                      s[i] = sep /\ \A j \in 1..(i - 1) : s[j] # sep
         IN  <<SubSeq(s, 1, i - 1)>> \o split(SubSeq(s, i + 1, Len(s)), sep)

RECURSIVE join(_, _)
\* sep.join(lines)
join(sep, lines) ==
    IF lines = <<>> THEN <<>>
    ELSE IF Len(lines) = 1 THEN lines[1]
    ELSE lines[1] \o <<sep>> \o join(sep, Tail(lines))

\* re.search(r'\{.*\}', text, re.DOTALL): the span from the first "{" to the
\* last "}" of the text, or no match
json_match(text) ==
    LET opens == {i \in 1..Len(text) : text[i] = "{"}
        closes == {i \in 1..Len(text) : text[i] = "}"}
    IN  IF opens = {} \/ closes = {} THEN [found |-> FALSE, group |-> <<>>]
        ELSE LET lo == CHOOSE i \in opens : \A j \in opens : i <= j
                 hi == CHOOSE i \in closes : \A j \in closes : j <= i
             IN  IF lo < hi
                 THEN [found |-> TRUE, group |-> SubSeq(text, lo, hi)]
                 ELSE [found |-> FALSE, group |-> <<>>]

\* The code-fence branch of clean_json_response: the first line goes, and
\* the last line goes when it is a bare closing fence
unfence(stripped) ==
    LET lines == split(stripped, "\n")
        lines1 == IF startswith(lines[1], Backticks) THEN Tail(lines) ELSE lines
        lines2 == IF lines1 # <<>> /\ strip(lines1[Len(lines1)]) = Backticks
                  THEN SubSeq(lines1, 1, Len(lines1) - 1)
                  ELSE lines1
    IN  strip(join("\n", lines2))

\* clean_json_response
clean_json_response(response_text) ==
    LET stripped == strip(response_text)
        unfenced == IF startswith(stripped, Backticks) THEN unfence(stripped) ELSE stripped
        m == json_match(unfenced)
    IN  IF m.found THEN m.group ELSE unfenced

\* The JSON objects of the model: their text and the value json.loads makes
\* of it.
JsonDocuments ==
    { [text |-> <<"{", "}">>, value |-> EmptyDict],
      [text |-> <<"{", "\"", "a", "\"", ":", "1", "}">>,
       value |-> [kind |-> "dict", a |-> 1]],
      [text |-> <<"{", "\"", "b", "\"", ":", "{", "}", "}">>,
       value |-> [kind |-> "dict", b |-> EmptyDict]] }

JSONDecodeError == [kind |-> "JSONDecodeError"]

\* json.loads: strict parsing of the whole text (whitespace around the
\* document is allowed).  Of the texts built from the wrappings below, the
\* ones that are JSON are exactly the documents themselves.
json_loads(text) ==
    IF \E d \in JsonDocuments : d.text = strip(text)
    THEN (CHOOSE d \in JsonDocuments : d.text = strip(text)).value
    ELSE JSONDecodeError

\* The ways a completion wraps an object: surrounding whitespace, leading
\* prose, a code fence with or without a language tag, trailing prose.
OuterWhitespace == { <<>>, <<" ">> }

LeadingProse ==
    { <<>>,
      <<"H", "i", ":", "\n">>,
      <<"u", "s", "e", " ", "{", "x", "}", ":", "\n">> }

Fences ==
    { [open |-> <<>>, close |-> <<>>],
      [open |-> Backticks \o <<"\n">>, close |-> <<"\n">> \o Backticks],
      [open |-> Backticks \o <<"j", "s", "o", "n", "\n">>, close |-> <<"\n">> \o Backticks] }

TrailingProse ==
    { <<>>,
      <<"\n", "o", "k">>,
      <<"\n", "s", "e", "e", " ", "{", "y", "}">> }

Wrap(w1, lead, fence, doc, trail, w2) ==
    w1 \o lead \o fence.open \o doc.text \o fence.close \o trail \o w2

\* ------------------------------------------------------------ collaborators
\* What the data sources and the completion service can answer.  Each call
\* either raises or returns; what is returned is chosen by the environment.

CompanyInfos ==
    { [kind |-> "dict", company_name |-> "NVIDIA Corporation", market_cap |-> "3.1e12"],
      [kind |-> "dict", company_name |-> "Unknown", market_cap |-> "None"] }

\* MarketDataMCP.fetch_data(ticker, data_type="all", period="1y")
MarketDataResults(ticker) ==
    LET failed == [outcome |-> "returned", success |-> FALSE,
                   info |-> EmptyDict, fundamentals |-> "none", history |-> "none"]
    IN  IF ticker = <<>>
        THEN {failed}
        ELSE {failed}
             \cup { [outcome |-> "returned", success |-> TRUE, info |-> i,
                     fundamentals |-> "fundamentals", history |-> "history"]
                    : i \in CompanyInfos }
             \cup { [outcome |-> "raise", success |-> FALSE,
                     info |-> EmptyDict, fundamentals |-> "none", history |-> "none"] }

Articles(n) == [i \in 1..n |-> [kind |-> "dict", title |-> i]]

\* NewsMCP.fetch_data(ticker, company_name, days=30)
NewsResults ==
    { [outcome |-> "returned", success |-> FALSE, articles |-> <<>>],
      [outcome |-> "raise", success |-> FALSE, articles |-> <<>>] }
    \cup { [outcome |-> "returned", success |-> TRUE, articles |-> Articles(n)]
           : n \in 0..MaxArticles }

\* A completion is abstracted to what cleaning and json.loads make of it:
\* an object ("dict"), a JSON value that is not an object ("list"), or text
\* that does not parse ("prose").
\* The text comes along where the stages use it: text that does not parse
\* is copied, truncated, into the fallback record.
Completion(outcome, parses_to, value) ==
    [outcome |-> outcome, parses_to |-> parses_to, value |-> value,
     response_text |-> IF parses_to = "prose" THEN RawText ELSE <<"H", "m", "m">>]

RaisingCompletion == Completion("raise", "prose", NoneV)

ProseCompletion == Completion("text", "prose", NoneV)

ListCompletion == Completion("text", "list", [kind |-> "list", items |-> <<1>>])

FinancialObjects ==
    { [kind |-> "dict", assessment |-> Str(<<"S", "o", "l", "i", "d">>), strengths |-> <<"margins">>,
       concerns |-> <<"valuation">>, valuation |-> "Fairly Valued", trend |-> "Upward"],
      [kind |-> "dict", assessment |-> Str(<<"S", "o", "l", "i", "d">>),
       raw_data |-> [kind |-> "dict", fundamentals |-> "invented",
                     technical |-> "invented",
                     company_info |-> [kind |-> "dict", company_name |-> "invented",
                                       market_cap |-> "None"]]],
      EmptyDict }

SentimentObjects ==
    { [kind |-> "dict", sentiment_score |-> "0.8", overall_mood |-> "Bullish",
       key_themes |-> <<"ai">>, catalysts |-> <<>>, concerns |-> <<>>,
       summary |-> Str(<<"u", "p">>)],
      [kind |-> "dict", sentiment_score |-> "0.2", overall_mood |-> "Bearish",
       article_count |-> 17],
      EmptyDict }

RecommendationObjects ==
    { [kind |-> "dict", action |-> "BUY", confidence |-> "0.75", reasoning |-> Str(<<"a", "l", "i", "g", "n", "e", "d">>)],
      [kind |-> "dict", action |-> "SELL", reasoning |-> Str(<<"w", "e", "a", "k">>)],
      [kind |-> "dict", action |-> "HOLD", confidence |-> "high"],
      [kind |-> "dict", action |-> "STRONG BUY", confidence |-> "0.9"],
      EmptyDict }

FinancialCompletions ==
    {RaisingCompletion, ProseCompletion, ListCompletion}
    \cup {Completion("text", "dict", o) : o \in FinancialObjects}

SentimentCompletions ==
    {RaisingCompletion, ProseCompletion, ListCompletion}
    \cup {Completion("text", "dict", o) : o \in SentimentObjects}

SynthesizerCompletions ==
    {RaisingCompletion, ProseCompletion, ListCompletion}
    \cup {Completion("text", "dict", o) : o \in RecommendationObjects}

\* What a float format ({x:.2f}) accepts.
Numbers == {"0", "0.2", "0.5", "0.75", "0.8", "0.9"}


\* ------------------------------------------------------------------- stages
\* A stage is a function of the state it is given and of what its
\* collaborators answer.  Its result says whether an exception left it, which
\* keys the returned dict holds (keys) with which values (vals), whether the
\* completion service was invoked, the log entries this invocation made, and
\* the arguments of its data fetch (none when it fetches nothing).

Returned(keys, vals, called, new_messages, new_errors) ==
    [ raised |-> FALSE, keys |-> keys, vals |-> vals, completion_called |-> called,
      new_messages |-> new_messages, new_errors |-> new_errors, fetch_args |-> <<>> ]

Raised(state) ==
    [ raised |-> TRUE, keys |-> {}, vals |-> state, completion_called |-> FALSE,
      new_messages |-> <<>>, new_errors |-> <<>>, fetch_args |-> <<>> ]

\* The result of a stage that called fetch_data with these arguments
WithFetch(res, args) == [res EXCEPT !.fetch_args = args]

\* A parser that never fails
ParseFails_never(response) == FALSE

\* json.loads(clean_json_response(response_text)) raising JSONDecodeError
ParseFails(response) == response.parses_to = "prose"

\* A coordinator that stores the trimmed ticker in the state it returns
coordinator_agent_stores_ticker(state) ==
    LET ticker == strip(upper(state.ticker))
    IN  IF ticker = <<>>
        THEN Returned(Fields,
                      [state EXCEPT !.ticker = ticker,
                                    !.errors = @ \o <<"No ticker provided">>],
                      FALSE, <<>>, <<"No ticker provided">>)
        ELSE LET analysis_plan ==
                     [ kind |-> "dict",
                       ticker |-> ticker,
                       perform_financial_analysis |-> TRUE,
                       perform_sentiment_analysis |-> TRUE,
                       focus_areas |-> _determine_focus_areas(state.user_query),
                       context |-> [ kind |-> "dict",
                                     user_intent |-> _classify_user_intent(state.user_query),
                                     time_sensitivity |-> _assess_time_sensitivity(state.user_query) ] ]
                 message == [ role |-> "coordinator", text |-> "Planning analysis",
                              ticker |-> ticker, detail |-> analysis_plan.focus_areas ]
             IN  Returned({"ticker", "analysis_plan", "messages"},
                          [state EXCEPT !.ticker = ticker,
                                        !.analysis_plan = analysis_plan,
                                        !.messages = <<message>>],
                          FALSE, <<message>>, <<>>)

\* coordinator_agent
coordinator_agent(state) ==
    LET ticker == strip(upper(state.ticker))
        user_query == state.user_query
    IN  IF ticker = <<>>
        THEN \* state["errors"] = ... + ["No ticker provided"]; return state
             Returned(Fields,
                      [state EXCEPT !.errors = @ \o <<"No ticker provided">>],
                      FALSE, <<>>, <<"No ticker provided">>)
        ELSE LET analysis_plan ==
                     [ kind |-> "dict",
                       ticker |-> ticker,
                       perform_financial_analysis |-> TRUE,
                       perform_sentiment_analysis |-> TRUE,
                       focus_areas |-> _determine_focus_areas(user_query),
                       context |-> [ kind |-> "dict",
                                     user_intent |-> _classify_user_intent(user_query),
                                     time_sensitivity |-> _assess_time_sensitivity(user_query) ] ]
                 message == [ role |-> "coordinator", text |-> "Planning analysis",
                              ticker |-> ticker, detail |-> analysis_plan.focus_areas ]
             IN  \* return {"analysis_plan": analysis_plan, "messages": [message]}
                 Returned({"analysis_plan", "messages"},
                          [state EXCEPT !.analysis_plan = analysis_plan,
                                        !.messages = <<message>>],
                          FALSE, <<message>>, <<>>)

\* A financial_agent whose except clause lets the exception through
financial_except_reraises(state, called) == Raised(state)

\* The except clause of financial_agent:
\* return {"errors": state.get("errors", []) + [error_msg]}
financial_except(state, called) ==
    Returned({"errors"},
             [state EXCEPT !.errors = @ \o <<"Financial agent error">>],
             called, <<>>, <<"Financial agent error">>)

\* A prompt builder that puts up with a missing plan
analysis_prompt_tolerates_no_plan(info, plan) ==
    Get(info, "market_cap", "0") = "None"

\* _build_analysis_prompt raises when the plan is None (plan.get) or the
\* market cap is None (format spec ,.0f)
analysis_prompt_raises(info, plan) ==
    \/ ~IsDict(plan)
    \/ Get(info, "market_cap", "0") = "None"

\* A financial stage that does not look at the success flag of the fetch
financial_agent_unchecked(state, market_data, response) ==
    LET analysis == [ kind |-> "dict",
                      raw_data |-> [ kind |-> "dict",
                                     fundamentals |-> market_data.fundamentals,
                                     technical |-> market_data.history,
                                     company_info |-> market_data.info ] ]
        message == [ role |-> "financial_agent", text |-> "Completed financial analysis",
                     ticker |-> state.ticker, detail |-> <<>> ]
    IN  WithFetch(Returned({"financial_analysis", "messages"},
                           [state EXCEPT !.financial_analysis = analysis,
                                         !.messages = <<message>>],
                           TRUE, <<message>>, <<>>),
                  <<"all", "1y">>)

\* financial_agent
financial_agent(state, market_data, response) ==
    LET ticker == state.ticker
        analysis_plan == state.analysis_plan
    IN  \* market_data_mcp.fetch_data(ticker, data_type="all", period="1y")
        WithFetch(
        IF market_data.outcome = "raise"
        THEN financial_except(state, FALSE)
        ELSE IF ~market_data.success
        THEN \* state["errors"] = ... + [error_msg]; return state
             Returned(Fields,
                      [state EXCEPT !.errors = @ \o <<"Failed to fetch market data">>],
                      FALSE, <<>>, <<"Failed to fetch market data">>)
        ELSE IF analysis_prompt_raises(market_data.info, analysis_plan)
        THEN financial_except(state, FALSE)
        ELSE IF response.outcome = "raise"
        THEN financial_except(state, TRUE)
        ELSE LET parsed ==
                     IF ParseFails(response)
                     THEN [ kind |-> "dict",
                            fundamentals_summary |-> Str(Take(response.response_text, 500)),
                            technical_summary |-> "See fundamentals summary",
                            assessment |-> Str(Take(response.response_text, 500)),
                            strengths |-> <<>>,
                            concerns |-> <<>>,
                            valuation |-> "Unknown",
                            trend |-> "Unknown" ]
                     ELSE response.value
             IN  IF ~IsDict(parsed)
                 THEN \* analysis["raw_data"] = ... on a list, number or string
                      financial_except(state, TRUE)
                 ELSE LET analysis ==
                              SetItem(parsed, "raw_data",
                                      [ kind |-> "dict",
                                        fundamentals |-> market_data.fundamentals,
                                        technical |-> market_data.history,
                                        company_info |-> market_data.info ])
                          message == [ role |-> "financial_agent",
                                       text |-> "Completed financial analysis",
                                       ticker |-> ticker, detail |-> <<>> ]
                      IN  \* return {"financial_analysis": analysis, "messages": [message]}
                          Returned({"financial_analysis", "messages"},
                                   [state EXCEPT !.financial_analysis = analysis,
                                                 !.messages = <<message>>],
                                   TRUE, <<message>>, <<>>),
        <<"all", "1y">>)


InsufficientNewsData ==
    <<"I", "n", "s", "u", "f", "f", "i", "c", "i", "e", "n", "t", " ", "n", "e", "w", "s",
      " ", "d", "a", "t", "a", " ", "t", "o", " ", "d", "e", "t", "e", "r", "m", "i", "n",
      "e", " ", "s", "e", "n", "t", "i", "m", "e", "n", "t">>

\* The except clause of sentiment_agent:
\* return {"errors": state.get("errors", []) + [error_msg]}
sentiment_except(state, called) ==
    Returned({"errors"},
             [state EXCEPT !.errors = @ \o <<"Sentiment agent error">>],
             called, <<>>, <<"Sentiment agent error">>)

\* NewsMCP._build_query: the ticker alone, or the ticker and the company
\* name when a name is given
_build_query(ticker, company_name) ==
    IF company_name \notin {"None", ""}
    THEN [terms |-> 2, ticker |-> ticker, company_name |-> company_name]
    ELSE [terms |-> 1, ticker |-> ticker]

\* A read of the company name that makes one up when there is none
company_name_or_unknown(state) == "Unknown"

\* The company name sentiment_agent reads from the financial analysis
soft_company_name(state) ==
    IF Truthy(state.financial_analysis)
    THEN LET raw_data == Get(state.financial_analysis, "raw_data", EmptyDict)
             company_info == Get(raw_data, "company_info", EmptyDict)
         IN  Get(company_info, "company_name", "None")
    ELSE "None"

\* A sentiment stage without the zero-article path: it asks the completion
\* service whatever the number of articles
sentiment_agent_always_asks(state, news_data, response) ==
    LET analysis == [ kind |-> "dict",
                      sentiment_score |-> "0.5",
                      article_count |-> Len(news_data.articles),
                      overall_mood |-> "Neutral" ]
        message == [ role |-> "sentiment_agent", text |-> "Analyzed articles",
                     ticker |-> state.ticker, detail |-> <<"Neutral">>,
                     articles |-> Len(news_data.articles) ]
    IN  WithFetch(Returned({"sentiment_analysis", "messages"},
                           [state EXCEPT !.sentiment_analysis = analysis,
                                         !.messages = <<message>>],
                           TRUE, <<message>>, <<>>),
                  <<soft_company_name(state), "30">>)

\* sentiment_agent
sentiment_agent(state, news_data, response) ==
    LET ticker == state.ticker
        analysis_plan == state.analysis_plan
        company_name == soft_company_name(state)
        articles == news_data.articles
        total_articles == Len(articles)
    IN  \* news_mcp.fetch_data(ticker, company_name=company_name, days=30)
        WithFetch(
        IF news_data.outcome = "raise"
        THEN sentiment_except(state, FALSE)
        ELSE IF ~news_data.success
        THEN \* state["errors"] = ... + [error_msg]; return state
             Returned(Fields,
                      [state EXCEPT !.errors = @ \o <<"Failed to fetch news">>],
                      FALSE, <<>>, <<"Failed to fetch news">>)
        ELSE IF total_articles = 0
        THEN LET message == [ role |-> "sentiment_agent",
                              text |-> "No news articles found",
                              ticker |-> ticker, detail |-> <<>> ]
             IN  \* state["sentiment_analysis"] = ...; state["messages"] = ...; return state
                 Returned(Fields,
                          [state EXCEPT
                             !.sentiment_analysis =
                                 [ kind |-> "dict",
                                   sentiment_score |-> "0.5",
                                   article_count |-> 0,
                                   key_themes |-> <<>>,
                                   overall_mood |-> "Neutral",
                                   concerns |-> <<"No recent news coverage found">>,
                                   catalysts |-> <<>>,
                                   summary |-> Str(InsufficientNewsData) ],
                             !.messages = @ \o <<message>>],
                          FALSE, <<message>>, <<>>)
        ELSE IF ~IsDict(analysis_plan)
        THEN \* _build_sentiment_prompt: plan.get on None
             sentiment_except(state, FALSE)
        ELSE IF response.outcome = "raise"
        THEN sentiment_except(state, TRUE)
        ELSE LET parsed ==
                     IF ParseFails(response)
                     THEN [ kind |-> "dict",
                            sentiment_score |-> "0.5",
                            article_count |-> total_articles,
                            key_themes |-> <<>>,
                            overall_mood |-> "Neutral",
                            concerns |-> <<>>,
                            catalysts |-> <<>>,
                            summary |-> Str(Take(response.response_text, 500)) ]
                     ELSE response.value
             IN  IF ~IsDict(parsed)
                 THEN \* analysis["article_count"] = ... on a list, number or string
                      sentiment_except(state, TRUE)
                 ELSE LET analysis ==
                              SetItem(SetItem(parsed, "article_count", total_articles),
                                      "sample_articles", Take(articles, 5))
                          message == [ role |-> "sentiment_agent",
                                       text |-> "Analyzed articles",
                                       ticker |-> ticker,
                                       detail |-> <<Get(analysis, "overall_mood", "Unknown")>>,
                                       articles |-> total_articles ]
                      IN  \* return {"sentiment_analysis": analysis, "messages": [message]}
                          Returned({"sentiment_analysis", "messages"},
                                   [state EXCEPT !.sentiment_analysis = analysis,
                                                 !.messages = <<message>>],
                                   TRUE, <<message>>, <<>>),
        <<company_name, "30">>)

\* A precondition that lets the synthesis go on with one analysis alone
missing_both_analyses(financial_analysis, sentiment_analysis) ==
    ~Truthy(financial_analysis) /\ ~Truthy(sentiment_analysis)

\* if not financial_analysis or not sentiment_analysis
missing_required_analysis(financial_analysis, sentiment_analysis) ==
    ~Truthy(financial_analysis) \/ ~Truthy(sentiment_analysis)

\* _build_synthesis_prompt raises when an analysis or the plan is not a dict
\* (.get) or the sentiment score cannot be formatted as a float
synthesis_prompt_raises(financial_analysis, sentiment_analysis, plan) ==
    \/ ~IsDict(financial_analysis)
    \/ ~IsDict(sentiment_analysis)
    \/ ~IsDict(plan)
    \/ Get(sentiment_analysis, "sentiment_score", "0.5") \notin Numbers

\* A synthesizer whose except clause drops the exception without a record
synthesizer_agent_swallows(state, response) ==
    LET ticker == state.ticker
        financial_analysis == state.financial_analysis
        sentiment_analysis == state.sentiment_analysis
        analysis_plan == state.analysis_plan
        failed(st, called) ==
            Returned(Fields, st, called, <<>>, <<>>)
    IN  IF missing_required_analysis(financial_analysis, sentiment_analysis)
        THEN Returned(Fields,
                      [state EXCEPT !.errors =
                           @ \o <<"Missing required analysis data for synthesis">>],
                      FALSE, <<>>, <<"Missing required analysis data for synthesis">>)
        ELSE IF synthesis_prompt_raises(financial_analysis, sentiment_analysis, analysis_plan)
        THEN failed(state, FALSE)
        ELSE IF response.outcome = "raise"
        THEN failed(state, TRUE)
        ELSE LET recommendation ==
                     IF ParseFails(response)
                     THEN [ kind |-> "dict",
                            action |-> "HOLD",
                            confidence |-> "0.5",
                            reasoning |-> Str(Take(response.response_text, 1000)),
                            risk_level |-> "Medium",
                            time_horizon |-> "Medium-term (3-12 months)",
                            key_factors |-> <<>>,
                            entry_strategy |-> "Consult with a financial advisor",
                            watch_for |-> <<>> ]
                     ELSE response.value
                 s1 == [state EXCEPT !.recommendation = recommendation]
             IN  IF ~IsDict(recommendation)
                 THEN \* recommendation.get on a list, number or string
                      failed(s1, TRUE)
                 ELSE LET s3 == [s1 EXCEPT
                                   !.confidence = Get(recommendation, "confidence", "0.5"),
                                   !.reasoning = Get(recommendation, "reasoning", Str(<<>>))]
                          action == Get(recommendation, "action", "UNKNOWN")
                          confidence == Get(recommendation, "confidence", "0")
                          message == [ role |-> "synthesizer",
                                       text |-> "Final recommendation",
                                       ticker |-> ticker,
                                       detail |-> <<action, confidence>> ]
                      IN  IF confidence \notin Numbers
                          THEN \* {confidence:.2f} on a value that is not a number
                               failed(s3, TRUE)
                          ELSE Returned(Fields,
                                        [s3 EXCEPT !.messages = @ \o <<message>>],
                                        TRUE, <<message>>, <<>>)

\* synthesizer_agent
synthesizer_agent(state, response) ==
    LET ticker == state.ticker
        financial_analysis == state.financial_analysis
        sentiment_analysis == state.sentiment_analysis
        analysis_plan == state.analysis_plan
        failed(st, called) ==
            \* except: state["errors"] = ... + [error_msg]; then return state
            Returned(Fields,
                     [st EXCEPT !.errors = @ \o <<"Synthesizer error">>],
                     called, <<>>, <<"Synthesizer error">>)
    IN  IF missing_required_analysis(financial_analysis, sentiment_analysis)
        THEN Returned(Fields,
                      [state EXCEPT !.errors =
                           @ \o <<"Missing required analysis data for synthesis">>],
                      FALSE, <<>>, <<"Missing required analysis data for synthesis">>)
        ELSE IF synthesis_prompt_raises(financial_analysis, sentiment_analysis, analysis_plan)
        THEN failed(state, FALSE)
        ELSE IF response.outcome = "raise"
        THEN failed(state, TRUE)
        ELSE LET recommendation ==
                     IF ParseFails(response)
                     THEN [ kind |-> "dict",
                            action |-> "HOLD",
                            confidence |-> "0.5",
                            reasoning |-> Str(Take(response.response_text, 1000)),
                            risk_level |-> "Medium",
                            time_horizon |-> "Medium-term (3-12 months)",
                            key_factors |-> <<>>,
                            entry_strategy |-> "Consult with a financial advisor",
                            watch_for |-> <<>> ]
                     ELSE response.value
                 s1 == [state EXCEPT !.recommendation = recommendation]
             IN  IF ~IsDict(recommendation)
                 THEN \* recommendation.get on a list, number or string
                      failed(s1, TRUE)
                 ELSE LET s3 == [s1 EXCEPT
                                   !.confidence = Get(recommendation, "confidence", "0.5"),
                                   !.reasoning = Get(recommendation, "reasoning", Str(<<>>))]
                          action == Get(recommendation, "action", "UNKNOWN")
                          confidence == Get(recommendation, "confidence", "0")
                          message == [ role |-> "synthesizer",
                                       text |-> "Final recommendation",
                                       ticker |-> ticker,
                                       detail |-> <<action, confidence>> ]
                      IN  IF confidence \notin Numbers
                          THEN \* {confidence:.2f} on a value that is not a number
                               failed(s3, TRUE)
                          ELSE Returned(Fields,
                                        [s3 EXCEPT !.messages = @ \o <<message>>],
                                        TRUE, <<message>>, <<>>)


\* -------------------------------------------------------------------- graph

Nodes == {"coordinator", "financial_agent", "sentiment_agent", "synthesizer"}

\* The order in which the nodes were added: the order in which the updates
\* of one step are applied.
NodeOrder == <<"coordinator", "financial_agent", "sentiment_agent", "synthesizer">>

EntryPoint == "coordinator"

\* A wiring that also feeds the synthesizer straight from the coordinator
Edges_bypass ==
    { <<"coordinator", "financial_agent">>,
      <<"coordinator", "sentiment_agent">>,
      <<"coordinator", "synthesizer">>,
      <<"financial_agent", "synthesizer">>,
      <<"sentiment_agent", "synthesizer">>,
      <<"synthesizer", "END">> }

\* A wiring that runs the two middle stages one after the other
Edges_sequential ==
    { <<"coordinator", "financial_agent">>,
      <<"financial_agent", "sentiment_agent">>,
      <<"sentiment_agent", "synthesizer">>,
      <<"synthesizer", "END">> }

Edges ==
    { <<"coordinator", "financial_agent">>,
      <<"coordinator", "sentiment_agent">>,
      <<"financial_agent", "synthesizer">>,
      <<"sentiment_agent", "synthesizer">>,
      <<"synthesizer", "END">> }

\* The nodes triggered by the nodes that ran in a step; a node with several
\* incoming edges from that step is triggered once.
Successors(ran) == {m \in Nodes : \E n \in ran : <<n, m>> \in Edges}

\* A reducer that keeps only the value written last
add_overwrite(a, b) == b

\* operator.add, the reducer of messages and errors
add(a, b) == a \o b

VARIABLES
    input,      \* the initial state handed to app.invoke
    channels,   \* the shared InvestmentState held by the graph runtime
    status,     \* "running", "final" (invoke returned the state) or "aborted"
    active,     \* the nodes of the current step
    st,         \* per node: "idle", "ready", "running" or "done" in this step
    results,    \* per node: what its last invocation returned
    runs,       \* per node: how many times it was started
    calls,      \* per node: what its collaborators answered in that invocation
    normalizer, \* a completion text on its way through the normalizer
    http        \* a request to POST /analyze and its answer

vars == <<input, channels, status, active, st, results, runs, calls, normalizer, http>>

NoResult ==
    [ raised |-> FALSE, keys |-> {}, vals |-> initial_state(<<>>, <<>>),
      completion_called |-> FALSE, new_messages |-> <<>>, new_errors |-> <<>>,
      fetch_args |-> <<>> ]

\* No collaborator was called.
NoCall == [outcome |-> "none", success |-> FALSE]

\* The answers a stage received: of its data fetch, and of the completion
\* service when the stage got as far as invoking it.
Answers(res, data, response) ==
    [ data |-> data,
      response |-> IF res.completion_called THEN response ELSE NoCall ]

\* No request is being served.
HttpIdle ==
    [ phase |-> "none", ticker |-> <<>>, user_query |-> <<>>, status_code |-> 0,
      detail |-> "", body |-> NoneV ]

\* No completion text is being normalized.
NormalizerIdle ==
    [ phase |-> "idle", doc |-> EmptyDict, leading |-> <<>>, trailing |-> <<>>,
      text |-> <<>>, parsed |-> NoneV ]

Init ==
    /\ normalizer = NormalizerIdle
    /\ http = HttpIdle
    /\ \E t \in TickerInputs, q \in QueryInputs : input = initial_state(t, q)
    /\ channels = input
    /\ status = "running"
    /\ active = {EntryPoint}
    /\ st = [n \in Nodes |-> IF n = EntryPoint THEN "ready" ELSE "idle"]
    /\ results = [n \in Nodes |-> NoResult]
    /\ runs = [n \in Nodes |-> 0]
    /\ calls = [n \in Nodes |-> Answers(NoResult, NoCall, NoCall)]

\* A node of the current step starts: it is handed the channels' values.
Start(n) ==
    /\ status = "running"
    /\ n \in active
    /\ st[n] = "ready"
    /\ st' = [st EXCEPT ![n] = "running"]
    /\ runs' = [runs EXCEPT ![n] = @ + 1]
    /\ UNCHANGED <<input, channels, status, active, results, calls, normalizer, http>>

\* A runtime in which a returning node writes its update straight into the
\* shared state, where the nodes still running in the step read it
Finish_writes_through(n, res, data, response) ==
    /\ status = "running"
    /\ st[n] = "running"
    /\ results' = [results EXCEPT ![n] = res]
    /\ calls' = [calls EXCEPT ![n] =
                    [ data |-> data,
                      response |-> IF res.completion_called THEN response
                                   ELSE [outcome |-> "none", success |-> FALSE] ]]
    /\ st' = [st EXCEPT ![n] = "done"]
    /\ status' = IF res.raised THEN "aborted" ELSE status
    /\ channels' = [k \in Fields |->
                       IF k \notin res.keys THEN channels[k]
                       ELSE IF k \in AddFields THEN channels[k] \o res.vals[k]
                       ELSE res.vals[k]]
    /\ UNCHANGED <<input, active, runs, normalizer, http>>

\* A running node returns res, or an exception leaves it and ends the run.
Finish(n, res, data, response) ==
    /\ status = "running"
    /\ st[n] = "running"
    /\ results' = [results EXCEPT ![n] = res]
    /\ calls' = [calls EXCEPT ![n] = Answers(res, data, response)]
    /\ st' = [st EXCEPT ![n] = "done"]
    /\ status' = IF res.raised THEN "aborted" ELSE status
    /\ UNCHANGED <<input, channels, active, runs, normalizer, http>>

Coordinator == Finish("coordinator", coordinator_agent(channels), NoCall, NoCall)

Financial ==
    \E market_data \in MarketDataResults(channels.ticker),
       response \in FinancialCompletions :
        Finish("financial_agent", financial_agent(channels, market_data, response),
               market_data, response)

Sentiment ==
    \E news_data \in NewsResults, response \in SentimentCompletions :
        Finish("sentiment_agent", sentiment_agent(channels, news_data, response),
               news_data, response)

Synthesizer ==
    \E response \in SynthesizerCompletions :
        Finish("synthesizer", synthesizer_agent(channels, response), NoCall, response)

\* The nodes of the current step whose returned dict holds key k
Writers(k) == {n \in active : k \in results[n].keys}

\* A key without a reducer can receive only one value per step.
InvalidConcurrentUpdate ==
    \E k \in Fields \ AddFields : Cardinality(Writers(k)) > 1

RECURSIVE Reduce(_, _, _)
\* The reducer applied to the values written to key k, in node order
Reduce(k, acc, i) ==
    IF i > Len(NodeOrder) THEN acc
    ELSE Reduce(k,
                IF NodeOrder[i] \in Writers(k)
                THEN add(acc, results[NodeOrder[i]].vals[k])
                ELSE acc,
                i + 1)

\* The channels after the updates of the current step are applied
apply_writes ==
    [k \in Fields |->
        IF k \in AddFields THEN Reduce(k, channels[k], 1)
        ELSE IF Writers(k) = {} THEN channels[k]
        ELSE results[CHOOSE n \in Writers(k) : TRUE].vals[k]]

StepOver == active # {} /\ \A n \in active : st[n] = "done"

\* End of a step: the updates are merged and the next nodes are triggered;
\* with none left, invoke returns the state.
ApplyWrites ==
    /\ status = "running"
    /\ StepOver
    /\ ~InvalidConcurrentUpdate
    /\ channels' = apply_writes
    /\ active' = Successors(active)
    /\ st' = [n \in Nodes |-> IF n \in Successors(active) THEN "ready" ELSE "idle"]
    /\ status' = IF Successors(active) = {} THEN "final" ELSE "running"
    /\ UNCHANGED <<input, results, runs, calls, normalizer, http>>

\* End of a step in which two nodes wrote a key without a reducer: invoke
\* raises InvalidUpdateError and no state is returned.
InvalidUpdate ==
    /\ status = "running"
    /\ StepOver
    /\ InvalidConcurrentUpdate
    /\ status' = "aborted"
    /\ UNCHANGED <<input, channels, active, st, results, runs, calls, normalizer, http>>

Next ==
    \/ \E n \in Nodes : Start(n)
    \/ Coordinator
    \/ Financial
    \/ Sentiment
    \/ Synthesizer
    \/ ApplyWrites
    \/ InvalidUpdate

Spec == Init /\ [][Next]_vars

\* --------------------------------------------- the normalizer on its own
\* parse_llm_json and the parsing block of each stage: the completion text
\* is cleaned, then handed to json.loads.

PipelineVars == <<input, channels, status, active, st, results, runs, calls>>

InitNormalizer ==
    /\ http = HttpIdle
    /\ input = initial_state(<<"n", "v">>, <<>>)
    /\ channels = input
    /\ status = "running"
    /\ active = {EntryPoint}
    /\ st = [n \in Nodes |-> IF n = EntryPoint THEN "ready" ELSE "idle"]
    /\ results = [n \in Nodes |-> NoResult]
    /\ runs = [n \in Nodes |-> 0]
    /\ calls = [n \in Nodes |-> Answers(NoResult, NoCall, NoCall)]
    /\ \E w1 \in OuterWhitespace, lead \in LeadingProse, fence \in Fences,
          d \in JsonDocuments, trail \in TrailingProse, w2 \in OuterWhitespace :
          normalizer = [ phase |-> "raw", doc |-> d.value,
                         leading |-> lead, trailing |-> trail,
                         text |-> Wrap(w1, lead, fence, d, trail, w2),
                         parsed |-> NoneV ]

\* cleaned = clean_json_response(response_text)
Clean ==
    /\ normalizer.phase = "raw"
    /\ normalizer' = [normalizer EXCEPT !.phase = "cleaned",
                                        !.text = clean_json_response(@)]
    /\ UNCHANGED <<PipelineVars, http>>

\* json.loads(cleaned)
Loads ==
    /\ normalizer.phase = "cleaned"
    /\ normalizer' = [normalizer EXCEPT !.phase = "parsed",
                                        !.parsed = json_loads(normalizer.text)]
    /\ UNCHANGED <<PipelineVars, http>>

NextNormalizer == Clean \/ Loads

NormalizerSpec == InitNormalizer /\ [][NextNormalizer]_vars

\* --------------------------------------------- the coordinator on its own
\* The first step of a run, over a larger set of queries.

InitPlanner ==
    /\ normalizer = NormalizerIdle
    /\ http = HttpIdle
    /\ \E t \in TickerInputs, q \in PlannerQueries : input = initial_state(t, q)
    /\ channels = input
    /\ status = "running"
    /\ active = {EntryPoint}
    /\ st = [n \in Nodes |-> IF n = EntryPoint THEN "ready" ELSE "idle"]
    /\ results = [n \in Nodes |-> NoResult]
    /\ runs = [n \in Nodes |-> 0]
    /\ calls = [n \in Nodes |-> Answers(NoResult, NoCall, NoCall)]

\* The coordinator is handed the initial state.
StartCoordinator == Start(EntryPoint)

\* The coordinator's update is merged into the state.
MergePlan == active = {EntryPoint} /\ ApplyWrites

NextPlanner == StartCoordinator \/ Coordinator \/ MergePlan

PlannerSpec == InitPlanner /\ [][NextPlanner]_vars

\* ------------------------------------------------------- the HTTP boundary
\* POST /analyze: analyze_stock validates the ticker, runs the workflow and
\* answers; its whole body sits in one try with `except Exception`.

\* len(ticker) > 10 is rejected
MaxTickerLen == 10

LongTicker == [i \in 1..(MaxTickerLen + 1) |-> "x"]

ApiTickers == TickerInputs \cup {LongTicker}

\* <<>> stands for a request without user_query.
ApiQueries == { <<>>, <<"i", "s", " ", "i", "t", " ", "r", "i", "s", "k", "y">> }

\* ticker = request.ticker.upper().strip()
request_ticker(request) == strip(upper(request.ticker))

\* The initial state analyze_stock builds from a request.
api_initial_state(request) ==
    LET ticker == request_ticker(request)
    IN  [ ticker             |-> ticker,
          user_query         |-> IF request.user_query = <<>>
                                 THEN DefaultQueryPrefix \o ticker \o <<"?">>
                                 ELSE request.user_query,
          analysis_plan      |-> NoneV,
          financial_analysis |-> NoneV,
          sentiment_analysis |-> NoneV,
          recommendation     |-> NoneV,
          confidence         |-> "None",
          reasoning          |-> NoneV,
          messages           |-> <<>>,
          errors             |-> <<>> ]

\* if not ticker or len(ticker) > 10
invalid_ticker(request) ==
    request_ticker(request) = <<>> \/ Len(request_ticker(request)) > MaxTickerLen

\* raise HTTPException(status_code=..., detail=...)
HTTPException(status_code, detail) ==
    [raised |-> "HTTPException", status_code |-> status_code, detail |-> detail]

\* An exception that is not an HTTPException
OtherException(name) == [raised |-> name, status_code |-> 0, detail |-> name]

\* except Exception as e: raise HTTPException(status_code=500, detail=str(e))
\* HTTPException is an Exception, so the clause catches it as well.
analyze_stock_except(e) == HTTPException(500, "str(e)")

\* The fields of AnalysisResponse and what their types accept:
\* Optional[dict] for the three records, Optional[float] for confidence.
response_validates(result) ==
    /\ result.financial_analysis.kind \in {"None", "dict"}
    /\ result.sentiment_analysis.kind \in {"None", "dict"}
    /\ result.recommendation.kind \in {"None", "dict"}
    /\ result.confidence \in Numbers \cup {"None"}
    /\ result.reasoning.kind \in {"None", "str"}

\* AnalysisResponse(ticker=result.get("ticker"), ...)
AnalysisResponse(result) ==
    [ kind               |-> "dict",
      ticker             |-> result.ticker,
      financial_analysis |-> result.financial_analysis,
      sentiment_analysis |-> result.sentiment_analysis,
      recommendation     |-> result.recommendation,
      confidence         |-> result.confidence,
      reasoning          |-> result.reasoning,
      messages           |-> result.messages,
      errors             |-> result.errors ]

\* The answer that leaves the handler when exception e leaves it
Answered(e) ==
    [http EXCEPT !.phase = "answered", !.status_code = e.status_code,
                 !.detail = e.detail]

InitApi ==
    /\ normalizer = NormalizerIdle
    /\ \E t \in ApiTickers, q \in ApiQueries :
          http = [ phase |-> "received", ticker |-> t, user_query |-> q,
                   status_code |-> 0, detail |-> "", body |-> NoneV ]
    /\ input = initial_state(<<>>, <<>>)
    /\ channels = input
    /\ status = "created"
    /\ active = {}
    /\ st = [n \in Nodes |-> "idle"]
    /\ results = [n \in Nodes |-> NoResult]
    /\ runs = [n \in Nodes |-> 0]
    /\ calls = [n \in Nodes |-> Answers(NoResult, NoCall, NoCall)]

\* The ticker fails validation: HTTPException(400) is raised inside the try
\* and the except clause of the handler answers for it.
Reject ==
    /\ http.phase = "received"
    /\ invalid_ticker(http)
    /\ http' = Answered(analyze_stock_except(HTTPException(400, "Invalid ticker symbol")))
    /\ UNCHANGED <<PipelineVars, normalizer>>

\* The ticker passes validation: the initial state is built and the
\* workflow is invoked on it.
Invoke ==
    /\ http.phase = "received"
    /\ ~invalid_ticker(http)
    /\ input' = api_initial_state(http)
    /\ channels' = api_initial_state(http)
    /\ status' = "running"
    /\ active' = {EntryPoint}
    /\ st' = [n \in Nodes |-> IF n = EntryPoint THEN "ready" ELSE "idle"]
    /\ http' = [http EXCEPT !.phase = "invoked"]
    /\ UNCHANGED <<results, runs, calls, normalizer>>

\* invoke returned the final state: the response model is built from it, or
\* its validation fails and the except clause answers.
Respond ==
    /\ http.phase = "invoked"
    /\ status = "final"
    /\ http' = IF response_validates(channels)
               THEN [http EXCEPT !.phase = "answered", !.status_code = 200,
                                 !.body = AnalysisResponse(channels)]
               ELSE Answered(analyze_stock_except(OtherException("ValidationError")))
    /\ UNCHANGED <<PipelineVars, normalizer>>

\* invoke raised: the except clause answers.
InvokeRaised ==
    /\ http.phase = "invoked"
    /\ status = "aborted"
    /\ http' = Answered(analyze_stock_except(OtherException("InvalidUpdateError")))
    /\ UNCHANGED <<PipelineVars, normalizer>>

NextApi == Reject \/ Invoke \/ Next \/ Respond \/ InvokeRaised

ApiSpec == InitApi /\ [][NextApi]_vars


\* ------------------------------------------------------------------ helpers

IsPrefix(a, b) == Len(a) <= Len(b) /\ SubSeq(b, 1, Len(a)) = a

Range(seq) == {seq[i] : i \in 1..Len(seq)}

Middle == {"financial_agent", "sentiment_agent"}

\* The run is over: invoke returned the state or raised.
RunOver == status \in {"final", "aborted"}

\* A result that records exactly one new error entry, appended to the errors
\* the stage was given, and that creates no log entry.
AppendsOneError(res) ==
    /\ Len(res.new_errors) = 1
    /\ "errors" \in res.keys
    /\ res.vals.errors = channels.errors \o res.new_errors
    /\ res.new_messages = <<>>

\* A result that leaves errors alone.
AppendsNoError(res) ==
    /\ res.new_errors = <<>>
    /\ "errors" \in res.keys => res.vals.errors = channels.errors

\* ------------------------------------------------------------------- claims

\* C1 (the claim as stated): whatever the collaborators answer, each of the
\* four stages returns normally, and every failure among those the claim
\* lists, completion text that does not parse included, is recorded as an
\* entry appended to errors.
C1_EveryFailureInErrors ==
    /\ \A n \in Nodes : ~results[n].raised
    /\ st["financial_agent"] = "running" =>
       \A market_data \in MarketDataResults(channels.ticker),
          response \in FinancialCompletions :
          LET res == financial_agent(channels, market_data, response)
          IN  ( \/ market_data.outcome = "raise"
                \/ ~market_data.success
                \/ response.outcome = "raise"
                \/ response.parses_to # "dict" ) => AppendsOneError(res)
    /\ st["sentiment_agent"] = "running" =>
       \A news_data \in NewsResults, response \in SentimentCompletions :
          LET res == sentiment_agent(channels, news_data, response)
          IN  ( \/ news_data.outcome = "raise"
                \/ ~news_data.success
                \/ /\ news_data.articles # <<>>
                   /\ \/ response.outcome = "raise"
                      \/ response.parses_to # "dict" ) => AppendsOneError(res)
    /\ st["synthesizer"] = "running" =>
       \A response \in SynthesizerCompletions :
          LET res == synthesizer_agent(channels, response)
          IN  ( \/ response.outcome = "raise"
                \/ response.parses_to # "dict" ) => AppendsOneError(res)

\* C1 (amended): whenever a stage is invoked, on the state it is handed and
\* for whatever its collaborators answer (a fetch reports
\* success = false, a fetch or the completion call raises, the completion
\* text does not parse or parses to a value that is not an object), each of
\* the four stages returns normally.  A reported fetch failure, a raising
\* call and a parsed value that is not an object are each recorded as exactly
\* one entry appended to errors, with no log entry; completion text that does
\* not parse is absorbed by the fallback record and adds nothing to errors.
C1_StagesReturnNormally ==
    /\ \A n \in Nodes : ~results[n].raised
    /\ st["coordinator"] = "running" => ~coordinator_agent(channels).raised
    /\ st["financial_agent"] = "running" =>
       \A market_data \in MarketDataResults(channels.ticker),
          response \in FinancialCompletions :
          LET res == financial_agent(channels, market_data, response)
          IN  /\ ~res.raised
              /\ ( \/ market_data.outcome = "raise"
                   \/ ~market_data.success
                   \/ response.outcome = "raise"
                   \/ response.parses_to = "list" ) => AppendsOneError(res)
              /\ ( /\ res.completion_called
                   /\ response.outcome # "raise"
                   /\ response.parses_to = "prose" ) => AppendsNoError(res)
    /\ st["sentiment_agent"] = "running" =>
       \A news_data \in NewsResults, response \in SentimentCompletions :
          LET res == sentiment_agent(channels, news_data, response)
          IN  /\ ~res.raised
              /\ ( \/ news_data.outcome = "raise"
                   \/ ~news_data.success
                   \/ /\ news_data.articles # <<>>
                      /\ \/ response.outcome = "raise"
                         \/ response.parses_to = "list" ) => AppendsOneError(res)
              /\ ( /\ res.completion_called
                   /\ response.outcome # "raise"
                   /\ response.parses_to = "prose" ) => AppendsNoError(res)
    /\ st["synthesizer"] = "running" =>
       \A response \in SynthesizerCompletions :
          LET res == synthesizer_agent(channels, response)
          IN  /\ ~res.raised
              /\ ( \/ response.outcome = "raise"
                   \/ response.parses_to = "list" ) => AppendsOneError(res)
              /\ ( /\ res.completion_called
                   /\ response.outcome # "raise"
                   /\ response.parses_to = "prose" ) => AppendsNoError(res)

\* C1 witness: the three kinds of outcome in one run: the financial stage
\* has returned from its except clause after the completion call, the
\* sentiment stage from a reported fetch failure, and the stages before
\* them absorbed nothing yet; the coordinator's plan is in place.
C1_Witness ==
    /\ st["financial_agent"] = "done"
    /\ st["sentiment_agent"] = "done"
    /\ results["financial_agent"].new_errors = <<"Financial agent error">>
    /\ results["financial_agent"].completion_called
    /\ results["sentiment_agent"].new_errors = <<"Failed to fetch news">>
    /\ Truthy(channels.analysis_plan)

\* C2 (the claim as stated): a run never aborts, and a run that has returned
\* its final state has executed each of the four stages exactly once.
C2_RunCompletesAllStages ==
    /\ status # "aborted"
    /\ status = "final" => \A n \in Nodes : runs[n] = 1

\* C3: the coordinator has finished before the financial or the sentiment
\* stage starts, both have finished before the synthesizer starts, and the
\* synthesizer is started at most once.
C3_StageOrdering ==
    /\ \A n \in Middle :
          runs[n] > 0 => runs["coordinator"] = 1 /\ st["coordinator"] = "idle"
    /\ runs["synthesizer"] > 0 =>
          \A n \in Middle : runs[n] = 1 /\ st[n] = "idle"
    /\ runs["synthesizer"] <= 1

\* C3 witness: the synthesizer is running, after both middle stages.
C3_Witness ==
    /\ st["synthesizer"] = "running"
    /\ \A n \in Middle : runs[n] = 1

\* The stage that owns each output record.
Owner ==
    [ analysis_plan |-> "coordinator", financial_analysis |-> "financial_agent",
      sentiment_analysis |-> "sentiment_agent", recommendation |-> "synthesizer" ]

\* C4 (the claim as stated): only the owning stage's returned update holds a
\* write to analysis_plan, financial_analysis, sentiment_analysis or
\* recommendation, and a write never changes a record that is already there.
C4_SingleWriterNeverOverwritten ==
    \A n \in Nodes, k \in DOMAIN Owner :
        (st[n] = "done" /\ k \in results[n].keys) =>
            /\ n = Owner[k]
            /\ Truthy(channels[k]) => results[n].vals[k] = channels[k]

\* C5: messages and errors are append-only: in every step their value
\* before the step is a prefix of their value after it.
C5_AppendOnly ==
    [][ /\ IsPrefix(channels.messages, channels'.messages)
        /\ IsPrefix(channels.errors, channels'.errors) ]_vars

\* C5 witness: a final state whose log holds entries of several steps and
\* whose errors list is not empty.
C5_Witness ==
    /\ status = "final"
    /\ Len(channels.messages) >= 2
    /\ Len(channels.errors) >= 1

\* How many entries the claim lets a stage's invocation add to the log.
ExpectedGrowth(n) ==
    IF n = "sentiment_agent" /\ results[n].new_messages # <<>>
       /\ results[n].new_messages[1].text = "No news articles found"
    THEN 2 ELSE 1

RECURSIVE SumExpected(_)
SumExpected(S) ==
    IF S = {} THEN 0
    ELSE LET n == CHOOSE x \in S : TRUE
         IN  ExpectedGrowth(n) + SumExpected(S \ {n})

\* C6 (the claim as stated): when the updates of a step are merged,
\* messages grows by exactly one entry per stage of the step, two for the
\* sentiment stage's zero-article path.
C6_OneEntryPerInvocation ==
    ( /\ status = "running"
      /\ StepOver
      /\ ~InvalidConcurrentUpdate ) =>
        Len(apply_writes.messages) = Len(channels.messages) + SumExpected(active)

\* The position of a role in the pipeline.
Rank(role) ==
    IF role = "coordinator" THEN 0 ELSE IF role = "synthesizer" THEN 2 ELSE 1

\* C7 (the claim as stated): in the final log every coordinator entry
\* precedes every middle-stage entry, and every middle-stage entry precedes
\* every synthesizer entry.
C7_LogInExecutionOrder ==
    status = "final" =>
        \A i, j \in 1..Len(channels.messages) :
            i < j => Rank(channels.messages[i].role) <= Rank(channels.messages[j].role)

\* C8 (the claim as stated): on every path the financial stage's update
\* writes only financial_analysis, messages, errors and the sentiment
\* stage's update only sentiment_analysis, messages, errors.
C8_DisjointWriteSets ==
    /\ st["financial_agent"] = "done" =>
          results["financial_agent"].keys \subseteq {"financial_analysis", "messages", "errors"}
    /\ st["sentiment_agent"] = "done" =>
          results["sentiment_agent"].keys \subseteq {"sentiment_analysis", "messages", "errors"}

\* C9 (the claim as stated): once the step of the two middle stages has
\* ended, the entries each of them created are in messages and errors.
C9_NoContributionLost ==
    ( /\ \A n \in Middle : runs[n] = 1 /\ st[n] \in {"done", "idle"}
      /\ RunOver \/ active # Middle ) =>
        \A n \in Middle :
            /\ Range(results[n].new_messages) \subseteq Range(channels.messages)
            /\ Range(results[n].new_errors) \subseteq Range(channels.errors)

MissingAnalysisError == "Missing required analysis data for synthesis"

\* An analysis the synthesizer needs is absent or empty.
AnalysisMissing ==
    ~Truthy(channels.financial_analysis) \/ ~Truthy(channels.sentiment_analysis)

\* C10: when financial_analysis or sentiment_analysis is absent or empty as
\* the synthesizer runs, the synthesizer does not invoke the completion
\* service, creates no log entry, records the missing-data error, and
\* recommendation, confidence and reasoning stay empty up to the final state.
C10_NoPartialSynthesis ==
    /\ (st["synthesizer"] = "done" /\ AnalysisMissing) =>
          LET res == results["synthesizer"]
          IN  /\ ~res.completion_called
              /\ res.new_messages = <<>>
              /\ res.vals.messages = channels.messages
              /\ res.new_errors = <<MissingAnalysisError>>
              /\ res.vals.errors = channels.errors \o <<MissingAnalysisError>>
              /\ res.vals.recommendation = NoneV
              /\ res.vals.confidence = "None"
              /\ res.vals.reasoning = NoneV
    /\ (status = "final" /\ AnalysisMissing) =>
          /\ channels.recommendation = NoneV
          /\ channels.confidence = "None"
          /\ channels.reasoning = NoneV
          /\ \A i \in 1..Len(channels.messages) :
                channels.messages[i].role # "synthesizer"
          /\ channels.errors # <<>>
          /\ channels.errors[Len(channels.errors)] = MissingAnalysisError

\* C10 witness: a final state reached with the financial analysis present
\* and the sentiment analysis absent.
C10_Witness ==
    /\ status = "final"
    /\ Truthy(channels.financial_analysis)
    /\ ~Truthy(channels.sentiment_analysis)
    /\ results["synthesizer"].new_errors = <<MissingAnalysisError>>

\* The synthesizer has returned and its update is about to be merged.
SynthesizerStepOver ==
    status = "running" /\ active = {"synthesizer"} /\ StepOver

\* C11 (the claim as stated): with financial_analysis present and
\* sentiment_analysis absent as the synthesizer runs, the merged errors list
\* is exactly one entry longer after the synthesizer's update than before it.
C11_MergedErrorsGrowByOne ==
    ( /\ SynthesizerStepOver
      /\ Truthy(channels.financial_analysis)
      /\ ~Truthy(channels.sentiment_analysis) ) =>
        Len(apply_writes.errors) = Len(channels.errors) + 1

\* The financial stage ran on fetched data and returned an analysis.
FinancialSucceeded ==
    /\ runs["financial_agent"] = 1
    /\ calls["financial_agent"].data.success
    /\ results["financial_agent"].keys = {"financial_analysis", "messages"}

\* The news fetch reported failure, or an exception was caught in the
\* sentiment stage.
SentimentFailed ==
    /\ runs["sentiment_agent"] = 1
    /\ results["sentiment_agent"].new_errors
           \in { <<"Failed to fetch news">>, <<"Sentiment agent error">> }

\* C12 (the claim as stated): a run in which the financial stage succeeds
\* and the sentiment stage fails returns a final state, with
\* financial_analysis present, sentiment_analysis and recommendation absent,
\* and the sentiment failure in errors.
C12_PartialResultsReturned ==
    ( RunOver /\ FinancialSucceeded /\ SentimentFailed ) =>
        /\ status = "final"
        /\ Truthy(channels.financial_analysis)
        /\ channels.sentiment_analysis = NoneV
        /\ channels.recommendation = NoneV
        /\ \E i \in 1..Len(channels.errors) :
              channels.errors[i] = results["sentiment_agent"].new_errors[1]

\* Both data fetches succeeded, with a company record that has a market
\* capitalisation, and every completion that was requested returned an
\* object with the fields its prompt asks for.
AllCollaboratorsSucceeded ==
    /\ \A n \in Nodes : runs[n] > 0 => st[n] \in {"done", "idle"}
    /\ runs["financial_agent"] = 1
    /\ runs["sentiment_agent"] = 1
    /\ calls["financial_agent"].data.success
    /\ calls["financial_agent"].data.info.market_cap # "None"
    /\ calls["sentiment_agent"].data.success
    /\ \A n \in Nodes :
          calls[n].response.outcome \in {"none", "text"}
    /\ \A n \in Nodes :
          calls[n].response.outcome = "text" =>
              /\ calls[n].response.parses_to = "dict"
              /\ n = "financial_agent" => "assessment" \in DOMAIN calls[n].response.value
              /\ n = "sentiment_agent" => "summary" \in DOMAIN calls[n].response.value
              /\ n = "synthesizer" =>
                    /\ {"action", "confidence", "reasoning"}
                           \subseteq DOMAIN calls[n].response.value
                    /\ calls[n].response.value.confidence \in Numbers

\* C13 (the claim as stated): a run with a non-empty ticker, successful
\* fetches (any article count, zero included) and a well-formed object from
\* every completion ends in a final state with the four records populated,
\* no errors, confidence equal to recommendation.confidence, and at least
\* four messages.
C13_EndToEnd ==
    ( /\ RunOver
      /\ strip(input.ticker) # <<>>
      /\ AllCollaboratorsSucceeded ) =>
        /\ status = "final"
        /\ Truthy(channels.analysis_plan)
        /\ Truthy(channels.financial_analysis)
        /\ Truthy(channels.sentiment_analysis)
        /\ Truthy(channels.recommendation)
        /\ channels.errors = <<>>
        /\ channels.confidence = Get(channels.recommendation, "confidence", "None")
        /\ Len(channels.messages) >= 4

\* C14 (the claim as stated): in every state, confidence and reasoning are
\* empty while recommendation is absent, and once recommendation is present
\* they equal recommendation.confidence and recommendation.reasoning.
C14_ConfidenceReasoningAreCopies ==
    IF channels.recommendation = NoneV
    THEN channels.confidence = "None" /\ channels.reasoning = NoneV
    ELSE /\ IsDict(channels.recommendation)
         /\ "confidence" \in DOMAIN channels.recommendation
         /\ channels.confidence = channels.recommendation.confidence
         /\ "reasoning" \in DOMAIN channels.recommendation
         /\ channels.reasoning = channels.recommendation.reasoning

\* The output record of each stage that calls the completion service.
OutputOf ==
    [ financial_agent |-> "financial_analysis",
      sentiment_agent |-> "sentiment_analysis",
      synthesizer |-> "recommendation" ]

\* C15 (the claim as stated): whatever text the completion service returns
\* (an object, text that does not parse, a JSON value that is not an
\* object), the stage that asked for it ends with its output record
\* populated by an object and adds nothing to errors.
C15_ResponseShapeNeverSurfaces ==
    \A n \in DOMAIN OutputOf :
        ( st[n] = "done" /\ calls[n].response.outcome = "text" ) =>
            /\ results[n].new_errors = <<>>
            /\ OutputOf[n] \in results[n].keys
            /\ IsDict(results[n].vals[OutputOf[n]])
            /\ Truthy(results[n].vals[OutputOf[n]])

\* C16 (the claim as stated): for every object and every wrapping of it
\* (leading prose, code fence with or without a language tag, trailing
\* prose, surrounding whitespace; prose that itself contains braces
\* included), cleaning followed by strict parsing yields exactly the object.
C16_NormalizerRoundTrip ==
    normalizer.phase = "parsed" => normalizer.parsed = normalizer.doc

\* The ticker of the run is empty or holds whitespace only.
BlankTicker ==
    \A i \in 1..Len(channels.ticker) : channels.ticker[i] \in Whitespace

\* The coordinator has returned and its update is about to be merged.
CoordinatorStepOver ==
    status = "running" /\ active = {"coordinator"} /\ StepOver

\* C17: for an empty or whitespace-only ticker the coordinator produces no
\* plan and no log entry, and merging its update leaves analysis_plan empty,
\* messages as they were, and errors exactly one entry longer, the entry
\* being "No ticker provided".
C17_BlankTickerOneError ==
    ( CoordinatorStepOver /\ BlankTicker ) =>
        /\ results["coordinator"].new_messages = <<>>
        /\ results["coordinator"].vals.analysis_plan = NoneV
        /\ ~InvalidConcurrentUpdate
        /\ apply_writes.analysis_plan = NoneV
        /\ apply_writes.messages = channels.messages
        /\ apply_writes.errors = channels.errors \o <<"No ticker provided">>
        /\ Len(apply_writes.errors) = Len(channels.errors) + 1

\* C17 witness: the coordinator's update for a whitespace-only ticker has
\* been merged and the middle stages are next.
C17_Witness ==
    /\ channels.ticker = <<" ">>
    /\ active = {"financial_agent", "sentiment_agent"}
    /\ channels.analysis_plan = NoneV
    /\ channels.messages = <<>>
    /\ channels.errors = <<"No ticker provided">>

\* The coordinator rejected the ticker and left analysis_plan empty.
ValidationFailed ==
    /\ runs["coordinator"] = 1
    /\ results["coordinator"].new_errors = <<"No ticker provided">>
    /\ channels.analysis_plan = NoneV

\* C18 (the claim as stated): when the coordinator fails ticker validation,
\* the run still executes the financial, sentiment and synthesis stages and
\* ends in a final state in which financial_analysis, sentiment_analysis
\* and recommendation are absent, whatever the data collaborators answer.
C18_DownstreamStagesNoOp ==
    ( RunOver /\ ValidationFailed ) =>
        /\ status = "final"
        /\ \A n \in Nodes : runs[n] = 1
        /\ channels.financial_analysis = NoneV
        /\ channels.sentiment_analysis = NoneV
        /\ channels.recommendation = NoneV

\* The market-data fetch of the financial stage reported success = false.
MarketFetchReportedFailure ==
    /\ runs["financial_agent"] = 1
    /\ st["financial_agent"] \in {"done", "idle"}
    /\ calls["financial_agent"].data.outcome = "returned"
    /\ ~calls["financial_agent"].data.success

\* C19: when the market-data fetch reports success = false, the financial
\* stage appends "Failed to fetch market data" to the errors it was given,
\* creates no log entry, does not invoke the completion service, and leaves
\* financial_analysis absent, in its update and in the final state.
C19_MarketFetchFailure ==
    /\ MarketFetchReportedFailure =>
          LET res == results["financial_agent"]
          IN  /\ res.new_errors = <<"Failed to fetch market data">>
              /\ "errors" \in res.keys
              /\ res.new_messages = <<>>
              /\ ~res.completion_called
              /\ calls["financial_agent"].response = NoCall
              /\ res.vals.financial_analysis = NoneV
    /\ ( MarketFetchReportedFailure /\ st["financial_agent"] = "done" ) =>
          LET res == results["financial_agent"]
          IN  /\ res.vals.errors = channels.errors \o <<"Failed to fetch market data">>
              /\ res.vals.messages = channels.messages
    /\ ( MarketFetchReportedFailure /\ st["financial_agent"] = "idle" ) =>
          /\ channels.financial_analysis = NoneV
          /\ \E i \in 1..Len(channels.errors) :
                channels.errors[i] = "Failed to fetch market data"

\* C19 witness: a run for a real ticker has returned its final state after
\* the market-data fetch reported failure.
C19_Witness ==
    /\ status = "final"
    /\ strip(input.ticker) # <<>>
    /\ MarketFetchReportedFailure
    /\ results["financial_agent"].new_errors = <<"Failed to fetch market data">>

\* The bundles the market-data fetch of this run returned.
FetchedBundle ==
    [ kind |-> "dict",
      fundamentals |-> calls["financial_agent"].data.fundamentals,
      technical |-> calls["financial_agent"].data.history,
      company_info |-> calls["financial_agent"].data.info ]

\* C20: whenever financial_analysis is present, in the financial stage's
\* update or in the shared state, it is an object whose raw_data entry holds
\* exactly the fundamentals, technical and company_info bundles fetched in
\* this run, whether the record was parsed from the completion (even one
\* that carries a raw_data field of its own) or is the fallback.
C20_RawDataAttached ==
    /\ channels.financial_analysis # NoneV =>
          /\ IsDict(channels.financial_analysis)
          /\ "raw_data" \in DOMAIN channels.financial_analysis
          /\ channels.financial_analysis.raw_data = FetchedBundle
    /\ ( st["financial_agent"] = "done"
         /\ results["financial_agent"].vals.financial_analysis # NoneV ) =>
          /\ calls["financial_agent"].data.success
          /\ IsDict(results["financial_agent"].vals.financial_analysis)
          /\ "raw_data" \in DOMAIN results["financial_agent"].vals.financial_analysis
          /\ results["financial_agent"].vals.financial_analysis.raw_data = FetchedBundle

\* C20 witness: the final state holds a financial_analysis parsed from a
\* completion object that came with a raw_data field of its own.
C20_Witness ==
    /\ status = "final"
    /\ channels.financial_analysis # NoneV
    /\ calls["financial_agent"].response.outcome = "text"
    /\ calls["financial_agent"].response.parses_to = "dict"
    /\ "raw_data" \in DOMAIN calls["financial_agent"].response.value
    /\ calls["financial_agent"].response.value.raw_data # FetchedBundle

\* The news fetch of the sentiment stage succeeded with no article.
NewsFetchFoundNothing ==
    /\ runs["sentiment_agent"] = 1
    /\ st["sentiment_agent"] \in {"done", "idle"}
    /\ calls["sentiment_agent"].data.outcome = "returned"
    /\ calls["sentiment_agent"].data.success
    /\ calls["sentiment_agent"].data.articles = <<>>

\* C21: when the news fetch succeeds with zero articles, the sentiment stage
\* does not invoke the completion service and sets sentiment_analysis to the
\* neutral record: sentiment_score 0.5, overall_mood "Neutral",
\* article_count 0, no key_themes, no catalysts, and the single concern
\* "No recent news coverage found"; a state merged from that update holds
\* the same record.
C21_ZeroArticlesNeutralRecord ==
    /\ NewsFetchFoundNothing =>
          LET res == results["sentiment_agent"]
              rec == res.vals.sentiment_analysis
          IN  /\ ~res.completion_called
              /\ calls["sentiment_agent"].response = NoCall
              /\ "sentiment_analysis" \in res.keys
              /\ IsDict(rec)
              /\ rec.sentiment_score = "0.5"
              /\ rec.overall_mood = "Neutral"
              /\ rec.article_count = 0
              /\ rec.key_themes = <<>>
              /\ rec.catalysts = <<>>
              /\ rec.concerns = <<"No recent news coverage found">>
    /\ ( NewsFetchFoundNothing /\ st["sentiment_agent"] = "idle" ) =>
          channels.sentiment_analysis = results["sentiment_agent"].vals.sentiment_analysis

\* C21 witness: a run has returned its final state after a news fetch that
\* found no article.
C21_Witness ==
    /\ status = "final"
    /\ NewsFetchFoundNothing
    /\ channels.sentiment_analysis.article_count = 0

\* The articles the news fetch of this run returned.
FetchedArticles == calls["sentiment_agent"].data.articles

\* min(5, count)
SampleSize == IF Len(FetchedArticles) < 5 THEN Len(FetchedArticles) ELSE 5

\* What C22 asks of a sentiment record.
CountsFetchedArticles(rec) ==
    /\ IsDict(rec)
    /\ "article_count" \in DOMAIN rec
    /\ rec.article_count = Len(FetchedArticles)
    /\ "sample_articles" \in DOMAIN rec =>
          /\ Len(rec.sample_articles) = SampleSize
          /\ \A i \in 1..SampleSize : rec.sample_articles[i] = FetchedArticles[i]

\* C22: whenever sentiment_analysis is present, in the sentiment stage's
\* update or in the shared state, its article_count is the number of
\* articles the news fetch of this run returned, whatever count the
\* completion claimed and whether the record was parsed, is the fallback or
\* comes from the zero-article path; sample_articles, when present, is the
\* first min(5, count) fetched articles in fetched order.
C22_ArticleCountIsFetchedCount ==
    /\ channels.sentiment_analysis # NoneV =>
          CountsFetchedArticles(channels.sentiment_analysis)
    /\ ( st["sentiment_agent"] = "done"
         /\ results["sentiment_agent"].vals.sentiment_analysis # NoneV ) =>
          CountsFetchedArticles(results["sentiment_agent"].vals.sentiment_analysis)

\* C22 witness: the final state holds a sentiment_analysis parsed from a
\* completion that claimed 17 articles, after a fetch of more than five.
C22_Witness ==
    /\ status = "final"
    /\ channels.sentiment_analysis # NoneV
    /\ Len(FetchedArticles) > 5
    /\ calls["sentiment_agent"].response.outcome = "text"
    /\ calls["sentiment_agent"].response.parses_to = "dict"
    /\ "article_count" \in DOMAIN calls["sentiment_agent"].response.value
    /\ calls["sentiment_agent"].response.value.article_count = 17

\* C23 (the claim as stated): when the news fetch reports success = false
\* or an exception is caught in the sentiment stage, the stage creates no
\* log entry, and once the step of the middle stages has ended
\* sentiment_analysis is absent and the merged errors list holds the entry
\* describing the failure.
C23_SentimentFailureRecorded ==
    ( /\ SentimentFailed
      /\ st["sentiment_agent"] \in {"done", "idle"}
      /\ RunOver \/ active # Middle ) =>
        /\ results["sentiment_agent"].new_messages = <<>>
        /\ channels.sentiment_analysis = NoneV
        /\ \E i \in 1..Len(channels.errors) :
              channels.errors[i] = results["sentiment_agent"].new_errors[1]

\* A financial analysis that carries a company name.
AnalysisWithCompanyName ==
    [ kind |-> "dict",
      raw_data |-> [ kind |-> "dict", fundamentals |-> "fundamentals",
                     technical |-> "history",
                     company_info |-> [ kind |-> "dict",
                                        company_name |-> "NVIDIA Corporation",
                                        market_cap |-> "3.1e12" ] ] ]

\* Two results of the sentiment stage that differ at most in the company
\* name handed to the fetch and in the financial_analysis carried along.
SameSentimentBehaviour(a, b) ==
    /\ a.raised = b.raised
    /\ a.keys = b.keys
    /\ a.completion_called = b.completion_called
    /\ a.new_messages = b.new_messages
    /\ a.new_errors = b.new_errors
    /\ a.vals.sentiment_analysis = b.vals.sentiment_analysis
    /\ a.vals.messages = b.vals.messages
    /\ a.vals.errors = b.vals.errors
    /\ a.fetch_args[2] = b.fetch_args[2]

\* C24: the sentiment stage reads the financial output softly.  With
\* financial_analysis absent, as it is whenever the stage runs in this graph,
\* the news request names the ticker only (company_name = None); for every
\* answer of its collaborators the stage behaves as it would with a company
\* name; and with a plan, a successful fetch and a completion that returns
\* an object or unparseable text, the absence leads to no error entry and no
\* missing sentiment_analysis.
C24_SoftReadOfFinancialOutput ==
    /\ runs["sentiment_agent"] > 0 /\ st["sentiment_agent"] # "running" =>
          /\ results["sentiment_agent"].fetch_args = <<"None", "30">>
          /\ _build_query(channels.ticker, results["sentiment_agent"].fetch_args[1])
                 = [terms |-> 1, ticker |-> channels.ticker]
    /\ st["sentiment_agent"] = "running" =>
          /\ channels.financial_analysis = NoneV
          /\ \A news_data \in NewsResults, response \in SentimentCompletions :
                LET without == sentiment_agent(channels, news_data, response)
                    with == sentiment_agent(
                                [channels EXCEPT !.financial_analysis = AnalysisWithCompanyName],
                                news_data, response)
                IN  /\ with.fetch_args[1] = "NVIDIA Corporation"
                    /\ without.fetch_args[1] = "None"
                    /\ SameSentimentBehaviour(without, with)
                    /\ ( /\ news_data.outcome = "returned"
                         /\ news_data.success
                         /\ IsDict(channels.analysis_plan)
                         /\ response.outcome = "text"
                         /\ response.parses_to # "list" ) =>
                           /\ without.new_errors = <<>>
                           /\ "sentiment_analysis" \in without.keys
                           /\ Truthy(without.vals.sentiment_analysis)

\* C24 witness: with financial_analysis absent, the sentiment stage has
\* returned an analysis obtained from the completion service, after a news
\* request without company name.
C24_Witness ==
    /\ st["sentiment_agent"] = "done"
    /\ channels.financial_analysis = NoneV
    /\ results["sentiment_agent"].fetch_args = <<"None", "30">>
    /\ results["sentiment_agent"].completion_called
    /\ results["sentiment_agent"].new_errors = <<>>
    /\ "sentiment_analysis" \in results["sentiment_agent"].keys

\* The actions the specification allows in a recommendation.
AllowedActions == {"BUY", "HOLD", "SELL", "UNKNOWN"}

\* C25 (the claim as stated): in every state where recommendation is
\* present, it is an object whose action is one of BUY, HOLD, SELL, UNKNOWN.
C25_ActionIsInEnum ==
    channels.recommendation # NoneV =>
        /\ IsDict(channels.recommendation)
        /\ "action" \in DOMAIN channels.recommendation
        /\ channels.recommendation.action \in AllowedActions

\* The first n characters of a text.
FirstChars(text, n) ==
    [i \in 1..(IF Len(text) < n THEN Len(text) ELSE n) |-> text[i]]

\* The completion text handed to the synthesizer did not parse.
SynthesisTextUnparseable ==
    /\ runs["synthesizer"] = 1
    /\ st["synthesizer"] \in {"done", "idle"}
    /\ calls["synthesizer"].response.outcome = "text"
    /\ calls["synthesizer"].response.parses_to = "prose"

\* The fallback recommendation of the specification for a raw text.
IsFallbackRecommendation(rec, text) ==
    /\ IsDict(rec)
    /\ rec.action = "HOLD"
    /\ rec.confidence = "0.5"
    /\ rec.reasoning = [kind |-> "str", chars |-> FirstChars(text, 1000)]
    /\ rec.risk_level = "Medium"
    /\ rec.time_horizon = "Medium-term (3-12 months)"
    /\ rec.key_factors = <<>>
    /\ rec.watch_for = <<>>

\* C26: when the synthesizer's completion text cannot be parsed, the
\* recommendation is the fallback record (HOLD, confidence 0.5, the first
\* 1000 characters of the raw text as reasoning, risk level Medium, the
\* medium-term horizon, no key factors, nothing to watch for), the
\* top-level confidence is 0.5, one synthesizer message is logged and
\* nothing is added to errors, in the stage's update and in the final state.
C26_SynthesizerFallback ==
    /\ SynthesisTextUnparseable =>
          LET res == results["synthesizer"]
              text == calls["synthesizer"].response.response_text
          IN  /\ IsFallbackRecommendation(res.vals.recommendation, text)
              /\ res.vals.confidence = "0.5"
              /\ Len(res.new_messages) = 1
              /\ res.new_messages[1].role = "synthesizer"
              /\ res.new_errors = <<>>
    /\ ( SynthesisTextUnparseable /\ st["synthesizer"] = "done" ) =>
          /\ results["synthesizer"].vals.errors = channels.errors
          /\ results["synthesizer"].vals.messages
                 = channels.messages \o results["synthesizer"].new_messages
    /\ ( SynthesisTextUnparseable /\ status = "final" ) =>
          /\ IsFallbackRecommendation(channels.recommendation,
                                      calls["synthesizer"].response.response_text)
          /\ channels.confidence = "0.5"
          /\ Cardinality({i \in 1..Len(channels.messages) :
                             channels.messages[i].role = "synthesizer"}) = 1
          /\ channels.errors = <<>>

\* C26 witness: a run has returned its final state after the synthesizer
\* received text of more than 1000 characters that does not parse.
C26_Witness ==
    /\ status = "final"
    /\ SynthesisTextUnparseable
    /\ Len(calls["synthesizer"].response.response_text) > 1000
    /\ channels.recommendation # NoneV

\* The completion text handed to the financial stage did not parse.
FinancialTextUnparseable ==
    /\ runs["financial_agent"] = 1
    /\ st["financial_agent"] \in {"done", "idle"}
    /\ calls["financial_agent"].response.outcome = "text"
    /\ calls["financial_agent"].response.parses_to = "prose"

\* The fallback financial record of the specification for a raw text.
IsFallbackAnalysis(rec, text) ==
    /\ IsDict(rec)
    /\ {"fundamentals_summary", "assessment", "strengths", "concerns",
        "valuation", "trend"} \subseteq DOMAIN rec
    /\ rec.fundamentals_summary = [kind |-> "str", chars |-> FirstChars(text, 500)]
    /\ rec.assessment = [kind |-> "str", chars |-> FirstChars(text, 500)]
    /\ rec.strengths = <<>>
    /\ rec.concerns = <<>>
    /\ rec.valuation = "Unknown"
    /\ rec.trend = "Unknown"

\* C27: when the financial stage's completion text cannot be parsed,
\* financial_analysis is the fallback record (fundamentals_summary and
\* assessment both the first 500 characters of the raw text, no strengths,
\* no concerns, valuation and trend "Unknown"), the stage logs its one
\* message and adds nothing to errors; a state merged from that update
\* holds the same record.
C27_FinancialFallback ==
    /\ FinancialTextUnparseable =>
          LET res == results["financial_agent"]
              text == calls["financial_agent"].response.response_text
          IN  /\ "financial_analysis" \in res.keys
              /\ IsFallbackAnalysis(res.vals.financial_analysis, text)
              /\ Len(res.new_messages) = 1
              /\ res.new_messages[1].role = "financial_agent"
              /\ res.vals.messages = res.new_messages
              /\ res.new_errors = <<>>
              /\ "errors" \notin res.keys
    /\ ( FinancialTextUnparseable /\ st["financial_agent"] = "idle" ) =>
          IsFallbackAnalysis(channels.financial_analysis,
                             calls["financial_agent"].response.response_text)

\* C27 witness: the update of a financial stage that received text of more
\* than 500 characters that does not parse has been merged.
C27_Witness ==
    /\ FinancialTextUnparseable
    /\ st["financial_agent"] = "idle"
    /\ Len(calls["financial_agent"].response.response_text) > 500
    /\ channels.financial_analysis # NoneV

\* The plans in sight: the one the coordinator has just returned and the one
\* merged into the state, where there is one.
Plans ==
    ( ( IF /\ st["coordinator"] = "done"
           /\ "analysis_plan" \in results["coordinator"].keys
        THEN {results["coordinator"].vals.analysis_plan} ELSE {} )
      \cup {channels.analysis_plan} )
    \ {NoneV}

\* The query a plan was made for, lower-cased
QueryLower == lower(channels.user_query)

MatchedAreas ==
    { a \in {"risk_assessment", "fundamentals", "technical", "news_sentiment"} :
        \/ a = "risk_assessment" /\ AnyIn(QueryLower, RiskKeywords)
        \/ a = "fundamentals" /\ AnyIn(QueryLower, FundamentalsKeywords)
        \/ a = "technical" /\ AnyIn(QueryLower, TechnicalKeywords)
        \/ a = "news_sentiment" /\ AnyIn(QueryLower, NewsKeywords) }

AreaRank(a) ==
    IF a = "risk_assessment" THEN 1
    ELSE IF a = "fundamentals" THEN 2
    ELSE IF a = "technical" THEN 3
    ELSE IF a = "news_sentiment" THEN 4
    ELSE 5

\* C28: for every query the plan's focus_areas is non-empty and free of
\* duplicates; it holds each of risk_assessment, fundamentals, technical,
\* news_sentiment exactly when the lower-cased query contains a keyword of
\* that set, in that relative order, and it is ["comprehensive"] exactly when
\* no set matches, so comprehensive never stands next to another area.
C28_FocusAreas ==
    \A plan \in Plans :
        LET fa == plan.focus_areas
        IN  /\ fa # <<>>
            /\ \A i, j \in 1..Len(fa) : i # j => fa[i] # fa[j]
            /\ Range(fa) \ {"comprehensive"} = MatchedAreas
            /\ \A i, j \in 1..Len(fa) : i < j => AreaRank(fa[i]) < AreaRank(fa[j])
            /\ (fa = <<"comprehensive">>) <=> (MatchedAreas = {})
            /\ "comprehensive" \in Range(fa) => Len(fa) = 1

\* C28 witness: a plan has been merged for a query that names all four areas
\* in the reverse of the scan order.
C28_Witness ==
    /\ channels.user_query = AllAreasReversed
    /\ channels.analysis_plan # NoneV
    /\ Len(channels.analysis_plan.focus_areas) = 4

\* C29: intent is the first match in the order buy, sell, hold: a query with
\* a buy keyword is buy_decision whatever else it holds, one with a sell
\* keyword and no buy keyword is sell_decision even with hold keywords, one
\* with hold keywords only is hold_decision, and one with none is research.
C29_IntentFirstMatchWins ==
    \A plan \in Plans :
        LET intent == plan.context.user_intent
            buy == AnyIn(QueryLower, BuyKeywords)
            sell == AnyIn(QueryLower, SellKeywords)
            hold == AnyIn(QueryLower, HoldKeywords)
        IN  /\ buy => intent = "buy_decision"
            /\ (sell /\ ~buy) => intent = "sell_decision"
            /\ (hold /\ ~buy /\ ~sell) => intent = "hold_decision"
            /\ (~buy /\ ~sell /\ ~hold) => intent = "research"

\* C29 witness: a plan has been merged for a query that holds a sell, a buy
\* and a hold keyword, with the buy keyword not in first place.
C29_Witness ==
    /\ channels.user_query = SellKeepBuy
    /\ channels.analysis_plan # NoneV
    /\ channels.analysis_plan.context.user_intent = "buy_decision"

\* The urgency keywords
UrgencyWords ==
    { <<"t", "o", "d", "a", "y">>, <<"n", "o", "w">>, <<"u", "r", "g", "e", "n", "t">>,
      <<"i", "m", "m", "e", "d", "i", "a", "t", "e">>, <<"a", "s", "a", "p">>,
      <<"q", "u", "i", "c", "k">>, <<"r", "i", "g", "h", "t", " ", "n", "o", "w">> }

\* C30: time_sensitivity is "urgent" exactly when the lower-cased query
\* contains one of today, now, urgent, immediate, asap, quick, right now as a
\* substring, and "normal" otherwise; for the query "is TSLA risky right now"
\* the plan has risk_assessment among its focus areas, intent research and
\* time_sensitivity urgent.
C30_Urgency ==
    \A plan \in Plans :
        LET urgent == \E w \in UrgencyWords : Contains(QueryLower, w)
        IN  /\ plan.context.time_sensitivity = IF urgent THEN "urgent" ELSE "normal"
            /\ channels.user_query = RiskyRightNow =>
                  /\ "risk_assessment" \in Range(plan.focus_areas)
                  /\ plan.context.user_intent = "research"
                  /\ plan.context.time_sensitivity = "urgent"

\* C30 witness: the plan for "is TSLA risky right now" has been merged.
C30_Witness ==
    /\ channels.user_query = RiskyRightNow
    /\ channels.analysis_plan # NoneV
    /\ channels.analysis_plan.context.time_sensitivity = "urgent"

\* C31: no stage changes the inputs: in every reachable state ticker and
\* user_query are what they were in the initial state, and every update a
\* stage returns that holds them, the whole state included, holds them
\* unchanged.
C31_InputsNeverChange ==
    /\ channels.ticker = input.ticker
    /\ channels.user_query = input.user_query
    /\ \A n \in Nodes :
          (runs[n] > 0 /\ st[n] # "running") =>
              /\ "ticker" \in results[n].keys => results[n].vals.ticker = input.ticker
              /\ "user_query" \in results[n].keys =>
                    results[n].vals.user_query = input.user_query

\* C31 witness: a run on a ticker with blanks around it has returned its
\* final state, after the synthesizer handed back the whole state.
C31_Witness ==
    /\ status = "final"
    /\ input.ticker = <<" ", "N", " ">>
    /\ {"ticker", "user_query"} \subseteq results["synthesizer"].keys
    /\ channels.ticker = <<" ", "N", " ">>

\* C32 (the claim as stated): the HTTP boundary answers 500 only when
\* running the orchestration itself fails: a request whose ticker is empty
\* after trimming or longer than 10 characters is answered 400 without the
\* workflow having run, and a run that returned its final state, with
\* whatever errors its stages recorded, is answered normally with the errors
\* list and the partial results.
C32_Status500OnlyForOrchestration ==
    http.phase = "answered" =>
        /\ invalid_ticker(http) =>
              /\ http.status_code = 400
              /\ \A n \in Nodes : runs[n] = 0
        /\ status = "final" =>
              /\ http.status_code = 200
              /\ http.body # NoneV
              /\ http.body.errors = channels.errors
              /\ http.body.financial_analysis = channels.financial_analysis
              /\ http.body.sentiment_analysis = channels.sentiment_analysis
              /\ http.body.recommendation = channels.recommendation
        /\ http.status_code = 500 => status = "aborted"

RECURSIVE CreatedBy(_, _)
\* The entries of log k (new_messages or new_errors) that the invocations of
\* the stages in S created, counted.
CreatedBy(S, k) ==
    IF S = {} THEN 0
    ELSE LET n == CHOOSE x \in S : TRUE
         IN  Len(results[n][k]) + CreatedBy(S \ {n}, k)

\* C33 (the claim as stated): the merge never duplicates log entries: when
\* the updates of a step are merged, messages and errors keep what they held
\* and grow by exactly the entries the invocations of that step created, also
\* where a stage returns the whole state or the existing errors list plus
\* its new entry.
C33_MergeNeverDuplicates ==
    ( /\ status = "running"
      /\ StepOver
      /\ ~InvalidConcurrentUpdate ) =>
        /\ IsPrefix(channels.messages, apply_writes.messages)
        /\ IsPrefix(channels.errors, apply_writes.errors)
        /\ Len(apply_writes.messages)
              = Len(channels.messages) + CreatedBy(active, "new_messages")
        /\ Len(apply_writes.errors)
              = Len(channels.errors) + CreatedBy(active, "new_errors")

\* The financial stage has returned an analysis that names the company.
FinancialReturnedCompanyName ==
    /\ st["financial_agent"] = "done"
    /\ "financial_analysis" \in results["financial_agent"].keys
    /\ soft_company_name(results["financial_agent"].vals) = "NVIDIA Corporation"

\* C34: as wired, with the financial and the sentiment stage as parallel
\* branches behind the coordinator, the sentiment stage never sees the
\* financial_analysis of its run: the state it is handed has
\* financial_analysis empty, also when the financial stage has already
\* returned; the news fetch is always called with company_name = None and
\* the company-name branch of the soft read is never taken.
C34_SentimentNeverSeesFinancial ==
    /\ st["sentiment_agent"] \in {"ready", "running"} =>
          /\ channels.financial_analysis = NoneV
          /\ soft_company_name(channels) = "None"
    /\ (runs["sentiment_agent"] > 0 /\ st["sentiment_agent"] # "running") =>
          /\ results["sentiment_agent"].fetch_args = <<"None", "30">>
          /\ runs["sentiment_agent"] = 1

\* C34 witness: the sentiment stage is running on a state without
\* financial_analysis after the financial stage of the same step returned an
\* analysis that names the company.
C34_Witness ==
    /\ FinancialReturnedCompanyName
    /\ st["sentiment_agent"] = "running"
    /\ channels.financial_analysis = NoneV

\* The synthesizer's except clause recorded an error.
SynthesizerErrorRecorded ==
    /\ runs["synthesizer"] = 1
    /\ st["synthesizer"] # "running"
    /\ results["synthesizer"].new_errors = <<"Synthesizer error">>

\* C35 (the claim as stated): when the synthesizer records a "Synthesizer
\* error" entry, it left its outputs untouched: recommendation, confidence
\* and reasoning are still empty in the state it returns and in the final
\* state; and whenever recommendation is present in the final state, the log
\* holds a synthesizer entry and the synthesizer added nothing to errors.
C35_SynthesizerErrorLeavesOutputsEmpty ==
    /\ SynthesizerErrorRecorded =>
          /\ results["synthesizer"].vals.recommendation = NoneV
          /\ results["synthesizer"].vals.confidence = "None"
          /\ results["synthesizer"].vals.reasoning = NoneV
          /\ status = "final" =>
                /\ channels.recommendation = NoneV
                /\ channels.confidence = "None"
                /\ channels.reasoning = NoneV
    /\ (status = "final" /\ channels.recommendation # NoneV) =>
          /\ \E i \in 1..Len(channels.messages) : channels.messages[i].role = "synthesizer"
          /\ results["synthesizer"].new_errors = <<>>

\* The entries of a list with their multiplicities
BagOfSeq(s) == [x \in Range(s) |-> Cardinality({i \in 1..Len(s) : s[i] = x})]

\* The state after the updates rs of one step are applied to state ch in the
\* order of rs; a key without a reducer takes the value of its writer.
MergedInOrder(ch, rs) ==
    [k \in Fields |->
        IF k \in AddFields
        THEN LET app[i \in 0..Len(rs)] ==
                     IF i = 0 THEN ch[k]
                     ELSE IF k \in rs[i].keys THEN app[i - 1] \o rs[i].vals[k]
                     ELSE app[i - 1]
             IN  app[Len(rs)]
        ELSE IF \E i \in 1..Len(rs) : k \in rs[i].keys
        THEN rs[CHOOSE i \in 1..Len(rs) : k \in rs[i].keys].vals[k]
        ELSE ch[k]]

\* Two updates of one step write the same key without a reducer.
Collide(rs) ==
    \E k \in Fields \ AddFields :
        Cardinality({i \in 1..Len(rs) : k \in rs[i].keys}) > 1

\* One step of a run computed from the updates rs
StepInOrder(run, rs) ==
    IF run.status # "running" THEN run
    ELSE IF Collide(rs) \/ \E i \in 1..Len(rs) : rs[i].raised
    THEN [status |-> "aborted", state |-> run.state]
    ELSE [status |-> "running", state |-> MergedInOrder(run.state, rs)]

\* The run on the recorded input with the recorded collaborator answers, its
\* two middle stages executed one after the other in the given order.
RunInOrder(financial_first) ==
    LET r0 == [status |-> "running", state |-> input]
        r1 == StepInOrder(r0, <<coordinator_agent(r0.state)>>)
        f == financial_agent(r1.state, calls["financial_agent"].data,
                             calls["financial_agent"].response)
        s == sentiment_agent(r1.state, calls["sentiment_agent"].data,
                             calls["sentiment_agent"].response)
        r2 == StepInOrder(r1, IF financial_first THEN <<f, s>> ELSE <<s, f>>)
        r3 == StepInOrder(r2, <<synthesizer_agent(r2.state, calls["synthesizer"].response)>>)
    IN  [ status |-> IF r3.status = "running" THEN "final" ELSE "aborted",
          state |-> r3.state,
          query |-> _build_query(r1.state.ticker, s.fetch_args[1]) ]

\* C36: for fixed inputs and fixed collaborator answers the outcome of a run
\* does not depend on the order in which the financial and the sentiment
\* stage execute: however the two were interleaved, the run ends as the run
\* with the financial stage first and as the run with the sentiment stage
\* first, with the same analysis_plan, financial_analysis,
\* sentiment_analysis, recommendation, confidence and reasoning, the same
\* news query, and the same entries in messages and in errors, each as many
\* times.
C36_DeterministicUnderInterleaving ==
    RunOver =>
        \A financial_first \in BOOLEAN :
            LET ref == RunInOrder(financial_first)
            IN  /\ status = ref.status
                /\ _build_query(channels.ticker, results["sentiment_agent"].fetch_args[1])
                       = ref.query
                /\ status = "final" =>
                      /\ \A k \in Fields \ AddFields : channels[k] = ref.state[k]
                      /\ BagOfSeq(channels.messages) = BagOfSeq(ref.state.messages)
                      /\ BagOfSeq(channels.errors) = BagOfSeq(ref.state.errors)

\* C36 witness: a run has returned its final state with a recommendation,
\* after both middle stages logged an entry in the same step.
C36_Witness ==
    /\ status = "final"
    /\ channels.recommendation # NoneV
    /\ results["financial_agent"].new_messages # <<>>
    /\ results["sentiment_agent"].new_messages # <<>>
    /\ results["sentiment_agent"].fetch_args # <<>>

\* C37: in every reachable state, recommendation present implies that
\* analysis_plan, financial_analysis and sentiment_analysis are all present
\* and non-empty, and financial_analysis present implies analysis_plan
\* present.
C37_ResultsImplyPrerequisites ==
    /\ channels.recommendation # NoneV =>
          /\ Truthy(channels.analysis_plan)
          /\ Truthy(channels.financial_analysis)
          /\ Truthy(channels.sentiment_analysis)
    /\ channels.financial_analysis # NoneV => channels.analysis_plan # NoneV

\* C37 witness: a run has returned its final state with a recommendation
\* and with the plan and both analyses it was made from.
C37_Witness ==
    /\ status = "final"
    /\ channels.recommendation # NoneV
    /\ channels.financial_analysis # NoneV
    /\ channels.sentiment_analysis # NoneV
    /\ channels.analysis_plan # NoneV

Records == {"analysis_plan", "financial_analysis", "sentiment_analysis", "recommendation"}

====
